---- MODULE Spec2Model ----
(***************************************************************************)
(* A model of the Nexis gateway's concurrent pieces:                       *)
(*   - IndexTask and the IndexingQueue worker (indexing/queue.rs),         *)
(*   - the admission semaphore of the write handlers (router/mod.rs),      *)
(*   - the ConnectionManager (connection/mod.rs),                          *)
(*   - the room, message and member maps and get_room (router/mod.rs),     *)
(*   - the reader and writer of a WebSocket connection (router/mod.rs),    *)
(*   - the provider streams of nexis-mcp and nexis-runtime,                *)
(*   - the retry loop of the provider and embedding clients.               *)
(* Each subsystem has its own specification over the shared variable      *)
(* tuple; the variables of the other subsystems stay at their initial     *)
(* values.  A step of a specification is one stretch of code between two  *)
(* suspension points (.await) of one task.                                 *)
(***************************************************************************)
EXTENDS Integers, Sequences, FiniteSets, TLC

(***************************************************************************)
(* Bounds of the model.                                                    *)
(***************************************************************************)
\* number of IndexTasks that callers hand to IndexingQueue::enqueue
NumTasks == 3
\* buffer_size given to IndexingQueue::new (capacity of the mpsc channel)
BufferSize == 1
\* largest max_retries drawn for the stand-alone IndexTask
MaxRetriesBound == 9
\* increment_attempt is called on the stand-alone IndexTask at most until
\* attempts reaches this value (attempts is a u32 in the code; the model
\* stops far below the width)
MaxAttempts == 12
\* number of tasks calling into one ConnectionManager
NumCallers == 2
\* max_connections given to ConnectionManager::with_max_connections
MaxConnections == 1
\* number of connection ids (Uuid::new_v4) drawn in one run
MaxConnIds == 3

\* number of HTTP requests the gateway handles in one run
NumHandlers == 3
\* number of HTTP requests of the clients of one room
NumRoomHandlers == 4
\* permits of the write_gate semaphore in the runs of the room's clients:
\* more than one, so that writers contend for the write lock
RoomGateCapacity == 2
\* permits of the write_gate semaphore (Semaphore::new(2_048) in
\* AppState::default, scaled down so that requests can outnumber it)
WriteGateCapacity == 1

\* number of frames the WebSocket peer sends in one run
MaxFrames == 3
\* capacity of a connection's outbound channel (mpsc::channel(256) in
\* handle_socket, scaled down so that the reader can find it full)
OutboundCapacity == 2

\* number of upstream events one provider stream consumes before the
\* upstream ends
MaxEvents == 3
\* longest chunk list the /v1/generate_stream endpoint answers with
MaxChunks == 2
\* largest max_retries given to with_retry_policy
MaxRetryPolicy == 2

\* number of tasks enqueued on one ControlPlaneClient
NumCpTasks == 2
\* largest max_task_attempts given to ControlPlaneClient::with_retry_policy
MaxTaskAttempts == 2

\* largest max_retries of a RetryConfig
MaxIndexRetries == 2
\* largest initial_delay_ms and max_delay_ms of a RetryConfig, in ms
MaxDelayMs == 3
\* largest multiplier of a RetryConfig, in halves (4 is the multiplier 2.0)
MaxMultiplier2 == 4

\* number of concurrent callers of one ProviderRegistry
NumRegistryCallers == 2
\* the calls made at once on one registry when their locks are at stake
NumConcurrentCalls == 3
\* number of calls made on one ProviderRegistry
MaxRegistryOps == 4

\* number of document ids in the runs of upsert, get and delete
MaxDocIds == 2
\* longest list given to upsert_batch, get_batch and delete_batch
MaxBatch == 2

\* number of document ids in the stores that are searched
MaxSearchDocs == 2
\* latest created_at of a document in the stores that are searched
MaxClock == 2
\* largest offset and largest limit of a SearchQuery
MaxOffset == 2
MaxLimit == 2

\* with_retry_policy(max_retries, retry_base_delay): the largest max_retries
\* and the largest retry_base_delay (in nanoseconds) tried
MaxShiftRetries == 33
MaxBaseDelay == 2
\* the width of `1_u32`
U32Bits == 32

\* ContextWindow: the largest max_tokens and reserved_tokens tried; the
\* longest message content, in bytes; the add_message calls made
MaxWindowTokens == 4
MaxReservedTokens == 1
MaxContentLen == 12
MaxAddMessages == 4

\* the longest string given to MemberId::from_str, in symbols
MaxIdSymbols == 7

\* the most texts in one embed_batch request
MaxBatchTexts == 3

\* IndexTask::new sets max_retries to 3
DefaultMaxRetries == 3

Tasks == 1..NumTasks
Callers == 1..NumCallers
Handlers == 1..NumHandlers

VARIABLES
    \* ---- IndexingQueue ----
    channel,        \* the mpsc channel's buffer: a sequence of IndexTask
    pending_tasks,  \* HashMap<Uuid, IndexTask>: a function on a set of ids
    stats,          \* QueueStats kept by the worker: completed, failed, retries
    wpc,            \* the worker's position in its loop
    wtask,          \* the worker's local `task`
    result,         \* what the last index_message call returned
    epc,            \* epc[t]: position of the enqueue call for task t
    status,         \* status[t]: TaskStatus of task t (history)
    \* ---- stand-alone IndexTask ----
    itask,          \* an IndexTask on which increment_attempt is called
    icalls,         \* number of increment_attempt calls made on it (history)
    \* ---- ConnectionManager ----
    connections,        \* keys of the connections map
    connection_permits, \* keys of the connection_permits map (one permit each)
    active_connections, \* the AtomicUsize counter
    connection_slots,   \* permits left in the connection_slots semaphore
    cpc,                \* cpc[p]: position of caller p inside a call
    cid,                \* cid[p]: the connection id of p's call in progress
    cret,               \* cret[p]: what p's last try_add_connection returned
    issued,             \* ids returned as Some(id) so far
    next_id,            \* the next fresh connection id
    \* ---- gateway (AppState and its handlers) ----
    rooms,          \* HashMap<String, Room>: room id -> name
    room_messages,  \* HashMap<String, Vec<StoredMessage>>
    room_members,   \* HashMap<String, Vec<String>>
    write_gate,     \* permits left in the write_gate semaphore
    gate_waiters,   \* handlers queued in write_gate.acquire_owned().await
    hpc,            \* hpc[h]: position of the handler of request h
    hreq,           \* hreq[h]: the request h
    hid,            \* hid[h]: the id the handler generated (room or message)
    hresp,          \* hresp[h]: HTTP status answered, 0 while unanswered
    hbody,          \* hbody[h]: the `messages` of a get_room response
    write_log,      \* handlers in the order room_messages.write() served them (history)
    next_uuid,      \* the next fresh Uuid::new_v4()
    \* ---- one WebSocket connection (handle_socket) ----
    inbound,        \* frames the peer has sent and receiver.next() has not yielded
    peer_frames,    \* number of frames the peer has sent
    outbound,       \* buffer of the mpsc channel (tx, rx)
    rx_open,        \* the writer task still owns rx
    wire,           \* text payloads written to the socket, in order
    rdpc,           \* the reader's position: "next", "send" or "done"
    rdmsg,          \* the text the reader is sending onto the channel
    wrpc,           \* the writer's position: "recv", "send", "ended" or "aborted"
    wrmsg,          \* the message the writer is writing to the socket
    abort_requested,\* writer.abort() has been called
    received,       \* texts that receiver.next() has yielded, in order (history)
    placed,         \* texts that tx.send() has accepted, in order (history)
    link_failed,    \* the stream ended or failed, or a socket write failed (history)
    \* ---- one provider stream (generate_stream) ----
    sprovider,      \* the provider whose generate_stream was called
    spc,            \* position of the code that feeds the stream
    sout,           \* the elements the stream has yielded, in order
    done_sent,      \* the local done_sent of nexis-mcp's OpenAIProvider
    sevents,        \* number of upstream events consumed
    \* ---- one request under the retry policy ----
    rclient,        \* "provider" (HttpJsonProvider) or "embedding"
    rmax,           \* self.max_retries
    rattempt,       \* the loop variable `attempt`
    rpc,            \* "try", "sleep" or "returned"
    rcalls,         \* number of try_post_json / try_embed calls made (history)
    rlast,          \* what the last call returned
    rsleeps,        \* the attempts after which the loop slept (history)
    rhist,          \* what each call returned, in order (history)
    rret,           \* what the request returned to its caller
    \* ---- ControlPlaneClient ----
    cp_queue,       \* queue: VecDeque<QueuedTask>, records with id and attempts
    cp_max,         \* max_task_attempts
    cp_next,        \* the id of the next task to be enqueued
    dpc,            \* position of the drain_once call: "idle", "dispatch", "sleep"
    dtask,          \* the local `task` of drain_once
    dret,           \* what the last drain_once call returned
    cp_dispatched,  \* cp_dispatched[id]: dispatch_task calls made for task id (history)
    \* ---- indexing retry: one RetryPolicy, one with_retry call ----
    bconfig,        \* the RetryConfig
    bpolicy,        \* the RetryPolicy: current_attempt, current_delay_ms
    bdelays,        \* what each next_delay call returned, in order (history)
    bpc,            \* position of with_retry: "idle", "call", "sleep", "returned"
    bops,           \* what each operation() call returned, in order (history)
    bsleeps,        \* the delays with_retry has slept, in order (history)
    bret,           \* what with_retry returned
    \* ---- ProviderRegistry ----
    reg_providers,  \* providers: name -> provider (the number of its register call)
    reg_default,    \* default_provider: <<>> for None, <<name>> for Some(name)
    reg_pw,         \* the caller that holds providers.write(), 0 for none
    reg_pr,         \* the callers that hold providers.read()
    reg_dw,         \* the caller that holds default_provider.write(), 0 for none
    reg_dr,         \* the callers that hold default_provider.read()
    gpc,            \* gpc[c]: position of caller c
    gname,          \* gname[c]: the name argument of caller c's call
    gret,           \* gret[c]: what caller c's last call returned
    reg_order,      \* the names registered, in the order of their inserts (history)
    reg_sets,       \* number of set_default calls that returned Ok (history)
    reg_ops,        \* number of calls made (history)
    reg_pq,         \* the callers that wait for the providers lock, first come first
    reg_dq,         \* the callers that wait for the default_provider lock
    \* ---- InMemoryVectorStore ----
    vstore,         \* documents: id -> Document
    vdim,           \* dimension
    vcall,          \* the last call made on the store: its kind and argument
    vret,           \* what the last call returned
    vlive,          \* the ids reported as stored and not as deleted since (history)
    vsorted,        \* the local `results` of search after sort_by (history)
    \* ---- the sleeps of the retry loops: backoff(retry_base_delay, attempt) ----
    kbase,          \* retry_base_delay, in nanoseconds
    kmax,           \* max_retries
    kbuild,         \* "debug" (overflow checks on) or "release" (off)
    kattempt,       \* the loop variable `attempt`
    kslept,         \* the Duration handed to the last sleep
    kpc,            \* "try", "sleep", "returned" or "panicked"
    \* ---- ContextManager: one window, one context ----
    xwindow,        \* the ContextWindow
    xmessages,      \* context.messages: [id, token_count], oldest first
    xnext,          \* the number of add_message calls made, the id of the next message
    xcall,          \* the last add_message call: what it found and asked to free
    xret,           \* what the last add_message call returned
    \* ---- MemberId: one string parsed and the parsed id asked ----
    mi_input,       \* the string given to from_str
    mi_parsed,      \* what from_str returned
    mi_identifier,  \* what identifier() returned
    mi_type,        \* what member_type() returned
    mi_string,      \* what to_string() returned
    \* ---- OpenAIEmbeddingProvider: one embed_batch request, one attempt ----
    eb_texts,       \* req.texts: the number of input texts
    eb_upstream,    \* what the upstream answers
    eb_ret          \* what try_embed_batch returned

queueVars == <<channel, pending_tasks, stats, wpc, wtask, result, epc, status>>
taskVars == <<itask, icalls>>
connVars == <<connections, connection_permits, active_connections,
              connection_slots, cpc, cid, cret, issued, next_id>>
gatewayVars == <<rooms, room_messages, room_members, write_gate, gate_waiters,
                 hpc, hreq, hid, hresp, hbody, write_log, next_uuid>>
socketVars == <<inbound, peer_frames, outbound, rx_open, wire, rdpc, rdmsg, wrpc,
                wrmsg, abort_requested, received, placed, link_failed>>
streamVars == <<sprovider, spc, sout, done_sent, sevents>>
retryVars == <<rclient, rmax, rattempt, rpc, rcalls, rlast, rsleeps, rhist, rret>>
controlVars == <<cp_queue, cp_max, cp_next, dpc, dtask, dret, cp_dispatched>>
backoffVars == <<bconfig, bpolicy, bdelays, bpc, bops, bsleeps, bret>>
registryVars == <<reg_providers, reg_default, reg_pw, reg_pr, reg_dw, reg_dr, gpc,
                  gname, gret, reg_order, reg_sets, reg_ops, reg_pq, reg_dq>>
storeVars == <<vstore, vdim, vcall, vret, vlive, vsorted>>
shiftVars == <<kbase, kmax, kbuild, kattempt, kslept, kpc>>
ctxVars == <<xwindow, xmessages, xnext, xcall, xret>>
memberVars == <<mi_input, mi_parsed, mi_identifier, mi_type, mi_string>>
embedVars == <<eb_texts, eb_upstream, eb_ret>>
lastVars == <<shiftVars, ctxVars, memberVars, embedVars>>
laterVars == <<backoffVars, registryVars, storeVars, lastVars>>
vars == <<queueVars, taskVars, connVars, gatewayVars, socketVars, streamVars,
          retryVars, controlVars, laterVars>>

\* what the steps of one subsystem leave alone
notQueue ==
    <<taskVars, connVars, gatewayVars, socketVars, streamVars, retryVars, controlVars,
      laterVars>>
notTask ==
    <<queueVars, connVars, gatewayVars, socketVars, streamVars, retryVars, controlVars,
      laterVars>>
notConn ==
    <<queueVars, taskVars, gatewayVars, socketVars, streamVars, retryVars, controlVars,
      laterVars>>
notGateway ==
    <<queueVars, taskVars, connVars, socketVars, streamVars, retryVars, controlVars,
      laterVars>>
notSocket ==
    <<queueVars, taskVars, connVars, gatewayVars, streamVars, retryVars, controlVars,
      laterVars>>
notStream ==
    <<queueVars, taskVars, connVars, gatewayVars, socketVars, retryVars, controlVars,
      laterVars>>
notControl ==
    <<queueVars, taskVars, connVars, gatewayVars, socketVars, streamVars, laterVars>>
notRetry ==
    <<queueVars, taskVars, connVars, gatewayVars, socketVars, streamVars, controlVars,
      laterVars>>
earlierVars ==
    <<queueVars, taskVars, connVars, gatewayVars, socketVars, streamVars, retryVars,
      controlVars>>
notBackoff == <<earlierVars, registryVars, storeVars, lastVars>>
notRegistry == <<earlierVars, backoffVars, storeVars, lastVars>>
notStore == <<earlierVars, backoffVars, registryVars, lastVars>>
midVars == <<earlierVars, backoffVars, registryVars, storeVars>>
notShift == <<midVars, ctxVars, memberVars, embedVars>>
notCtx == <<midVars, shiftVars, memberVars, embedVars>>
notMember == <<midVars, shiftVars, ctxVars, embedVars>>
notEmbed == <<midVars, shiftVars, ctxVars, memberVars>>

(***************************************************************************)
(* IndexTask                                                               *)
(***************************************************************************)
NewIndexTask(id) == [id |-> id, attempts |-> 0, max_retries |-> DefaultMaxRetries]

with_max_retries(t, m) == [t EXCEPT !.max_retries = m]

increment_attempt(t) == [t EXCEPT !.attempts = @ + 1]

\* can_retry with the comparison off by one
can_retry_inclusive(t) == t.attempts <= t.max_retries

can_retry(t) == t.attempts < t.max_retries

NoTask == [id |-> 0, attempts |-> 0, max_retries |-> 0]

(***************************************************************************)
(* Gateway requests.  Room ids are numbers: the generated ones are fresh   *)
(* (next_uuid), MissingRoom stands for an id no room has ("room_missing"), *)
(* BlankRoom for an empty or blank roomId.  Strings that the handlers only *)
(* test with trim().is_empty() are "" or one fixed text.                   *)
(***************************************************************************)
MissingRoom == 0
BlankRoom == 0 - 1

NoRequest == [kind |-> "none", room |-> 0, name |-> "", member |-> "", text |-> ""]

CreateRoomRequest(name) == [NoRequest EXCEPT !.kind = "create_room", !.name = name]

SendMessageRequest(room, text) ==
    [NoRequest EXCEPT !.kind = "send_message", !.room = room, !.text = text]

InviteMemberRequest(room, member) ==
    [NoRequest EXCEPT !.kind = "invite_member", !.room = room, !.member = member]

GetRoomRequest(room) == [NoRequest EXCEPT !.kind = "get_room", !.room = room]

\* the requests a client sends: room 1 is the id of the first room created
Requests ==
    {CreateRoomRequest(n) : n \in {"general", ""}}
    \cup {SendMessageRequest(r, "hello") : r \in {1, MissingRoom}}
    \cup {SendMessageRequest(BlankRoom, "hello"), SendMessageRequest(1, "")}
    \cup {InviteMemberRequest(1, m) : m \in {"alice", "bob"}}
    \cup {InviteMemberRequest(MissingRoom, "alice"), InviteMemberRequest(1, "")}
    \cup {GetRoomRequest(1)}

\* the requests of clients that talk in one room
RoomRequests ==
    {CreateRoomRequest("general"), SendMessageRequest(1, "hello"), GetRoomRequest(1)}

\* HashMap::contains_key
\* a lookup that finds every key
contains_key_always(m, k) == TRUE

contains_key(m, k) == k \in DOMAIN m

\* map.get(&k).cloned().unwrap_or_default() on a map of vectors
GetOrDefault(m, k) == IF k \in DOMAIN m THEN m[k] ELSE <<>>

\* s.trim().is_empty()
IsBlank(x) == x = ""

\* Semaphore::acquire_owned on first poll: a permit if one is left, else the
\* caller joins the semaphore's wait queue
\* an acquire that hands out a permit whether or not one is left
acquire_unchecked(gate, waiters, h) ==
    [gate |-> IF gate > 0 THEN gate - 1 ELSE 0, waiters |-> waiters, granted |-> TRUE]

acquire_owned(gate, waiters, h) ==
    IF gate > 0
    THEN [gate |-> gate - 1, waiters |-> waiters, granted |-> TRUE]
    ELSE [gate |-> gate, waiters |-> Append(waiters, h), granted |-> FALSE]

\* drop of an OwnedSemaphorePermit: the permit goes to the first waiter, or
\* back to the semaphore when nobody waits
\* a permit that is forgotten instead of dropped
drop_permit_leak(gate, waiters) ==
    [gate |-> gate, waiters |-> waiters, wake |-> 0]

drop_permit(gate, waiters) ==
    IF waiters # <<>>
    THEN [gate |-> gate, waiters |-> Tail(waiters), wake |-> Head(waiters)]
    ELSE [gate |-> gate + 1, waiters |-> waiters, wake |-> 0]

\* map.entry(k).or_default().push(v)
\* a push that replaces the vector
EntryReplace(m, k, v) == (k :> <<v>>) @@ m

\* a push at the front of the vector
EntryPushFront(m, k, v) ==
    IF k \in DOMAIN m THEN [m EXCEPT ![k] = <<v>> \o @] ELSE (k :> <<v>>) @@ m

EntryPush(m, k, v) ==
    IF k \in DOMAIN m THEN [m EXCEPT ![k] = Append(@, v)] ELSE (k :> <<v>>) @@ m

\* map.entry(k).or_default(), then push(v) unless contains(v)
\* a push that does not look for v first
EntryPushAlways(m, k, v) ==
    IF k \in DOMAIN m THEN [m EXCEPT ![k] = Append(@, v)] ELSE (k :> <<v>>) @@ m

EntryPushUnique(m, k, v) ==
    IF k \in DOMAIN m
    THEN IF \E i \in 1..Len(m[k]) : m[k][i] = v THEN m ELSE [m EXCEPT ![k] = Append(@, v)]
    ELSE (k :> <<v>>) @@ m

SeqRemove(q, x) == SelectSeq(q, LAMBDA y : y # x)

(***************************************************************************)
(* IndexingQueue: helpers                                                  *)
(***************************************************************************)
ChannelIds == {channel[i].id : i \in 1..Len(channel)}

PendingInsert(p, t) == (t.id :> t) @@ p

PendingRemove(p, id) == [k \in (DOMAIN p) \ {id} |-> p[k]]

\* IndexingQueue::stats(): the counters, with pending = pending_tasks.len()
QueueStatsNow ==
    [pending |-> Cardinality(DOMAIN pending_tasks),
     completed |-> stats.completed,
     failed |-> stats.failed,
     retries |-> stats.retries]

InitQueue ==
    /\ channel = <<>>
    /\ pending_tasks = <<>>
    /\ stats = [completed |-> 0, failed |-> 0, retries |-> 0]
    /\ wpc = "recv"
    /\ wtask = NoTask
    /\ result = "None"
    /\ epc = [t \in Tasks |-> "new"]
    /\ status = [t \in Tasks |-> "New"]

InitTaskIdle == itask = NewIndexTask(0) /\ icalls = 0

\* ConnectionManager::with_max_connections(MaxConnections)
InitConn ==
    /\ connections = {}
    /\ connection_permits = {}
    /\ active_connections = 0
    /\ connection_slots = MaxConnections
    /\ cpc = [p \in Callers |-> "idle"]
    /\ cid = [p \in Callers |-> 0]
    /\ cret = [p \in Callers |-> "-"]
    /\ issued = {}
    /\ next_id = 1

\* AppState::default()
InitGateway ==
    /\ rooms = <<>>
    /\ room_messages = <<>>
    /\ room_members = <<>>
    /\ write_gate = WriteGateCapacity
    /\ gate_waiters = <<>>
    /\ hpc = [h \in Handlers |-> "idle"]
    /\ hreq = [h \in Handlers |-> NoRequest]
    /\ hid = [h \in Handlers |-> 0]
    /\ hresp = [h \in Handlers |-> 0]
    /\ hbody = [h \in Handlers |-> <<>>]
    /\ write_log = <<>>
    /\ next_uuid = 1

\* handle_socket after socket.split(), mpsc::channel(..) and the spawn of
\* the writer
InitSocket ==
    /\ inbound = <<>>
    /\ peer_frames = 0
    /\ outbound = <<>>
    /\ rx_open = TRUE
    /\ wire = <<>>
    /\ rdpc = "next"
    /\ rdmsg = ""
    /\ wrpc = "recv"
    /\ wrmsg = ""
    /\ abort_requested = FALSE
    /\ received = <<>>
    /\ placed = <<>>
    /\ link_failed = FALSE

\* no generate_stream call has been made
InitStreamIdle ==
    /\ sprovider = "none"
    /\ spc = "idle"
    /\ sout = <<>>
    /\ done_sent = FALSE
    /\ sevents = 0

NoResult == [kind |-> "None", status |-> 0]

\* no request is under way
InitRetryIdle ==
    /\ rclient = "none"
    /\ rmax = 0
    /\ rattempt = 0
    /\ rpc = "idle"
    /\ rcalls = 0
    /\ rlast = NoResult
    /\ rsleeps = <<>>
    /\ rhist = <<>>
    /\ rret = NoResult

NoCpTask == [id |-> 0, attempts |-> 0]

\* no ControlPlaneClient is in use
InitControlIdle ==
    /\ cp_queue = <<>>
    /\ cp_max = 1
    /\ cp_next = 1
    /\ dpc = "idle"
    /\ dtask = NoCpTask
    /\ dret = NoResult
    /\ cp_dispatched = <<>>

\* RetryConfig::default
DefaultRetryConfig ==
    [max_retries |-> 3, initial_delay_ms |-> 100, max_delay_ms |-> 5000,
     multiplier2 |-> 4]

\* RetryPolicy::new
NewRetryPolicy(config) ==
    [current_attempt |-> 0, current_delay_ms |-> config.initial_delay_ms]

\* no RetryPolicy has been asked and with_retry has not been called
InitBackoffIdle ==
    /\ bconfig = DefaultRetryConfig
    /\ bpolicy = NewRetryPolicy(bconfig)
    /\ bdelays = <<>>
    /\ bpc = "idle"
    /\ bops = <<>>
    /\ bsleeps = <<>>
    /\ bret = NoResult

RegistryCallers == 1..NumRegistryCallers

\* ProviderRegistry::new, no call under way, with the given callers
InitRegistryFor(callers) ==
    /\ reg_providers = <<>>
    /\ reg_default = <<>>
    /\ reg_pw = 0
    /\ reg_pr = {}
    /\ reg_dw = 0
    /\ reg_dr = {}
    /\ gpc = [c \in callers |-> "idle"]
    /\ gname = [c \in callers |-> ""]
    /\ gret = [c \in callers |-> "none"]
    /\ reg_order = <<>>
    /\ reg_sets = 0
    /\ reg_ops = 0
    /\ reg_pq = <<>>
    /\ reg_dq = <<>>

InitRegistry == InitRegistryFor(RegistryCallers)

NoCall == [kind |-> "none"]

\* InMemoryVectorStore::new(dimension) and no call made
InitStore(dimension) ==
    /\ vstore = <<>>
    /\ vdim = dimension
    /\ vcall = NoCall
    /\ vret = NoCall
    /\ vlive = {}
    /\ vsorted = <<>>

InitStoreIdle == InitStore(2)

NoDuration == [base |-> 0, exp |-> 0]

\* no retry loop is running
InitShiftIdle ==
    /\ kbase = 0
    /\ kmax = 0
    /\ kbuild = "release"
    /\ kattempt = 0
    /\ kslept = NoDuration
    /\ kpc = "returned"

\* the window of a manager on which no add_message call is made
IdleWindow == [max_tokens |-> 4, reserved_tokens |-> 1,
                  overflow_strategy |-> "TruncateOldest"]

\* ContextManager::new(window), create_context(..) and no message added
InitContext(window) ==
    /\ xwindow = window
    /\ xmessages = <<>>
    /\ xnext = 1
    /\ xcall = NoCall
    /\ xret = "none"

InitContextIdle == InitContext(IdleWindow)

NotAsked == [kind |-> "not asked"]

\* from_str(s) is about to be called
InitMember(s) ==
    /\ mi_input = s
    /\ mi_parsed = NotAsked
    /\ mi_identifier = NotAsked
    /\ mi_type = NotAsked
    /\ mi_string = NotAsked

InitMemberIdle == InitMember(<<>>)

\* embed_batch is about to send `texts` inputs to an upstream that will
\* answer `upstream`
InitEmbed(texts, upstream) ==
    /\ eb_texts = texts
    /\ eb_upstream = upstream
    /\ eb_ret = NotAsked

InitEmbedIdle == InitEmbed(0, NotAsked)

InitLastIdle == InitShiftIdle /\ InitContextIdle /\ InitMemberIdle /\ InitEmbedIdle

InitLaterIdle == InitBackoffIdle /\ InitRegistry /\ InitStoreIdle /\ InitLastIdle

InitOthersIdle == InitStreamIdle /\ InitRetryIdle /\ InitControlIdle /\ InitLaterIdle

(***************************************************************************)
(* IndexingQueue::enqueue, one call per task.  sender.send(..).await waits *)
(* while the channel is full; the channel is never closed while the worker *)
(* runs, because the worker owns the receiver and a sender clone.          *)
(***************************************************************************)
EnqueueSend(t) ==
    /\ epc[t] = "new"
    /\ Len(channel) < BufferSize
    /\ channel' = Append(channel, NewIndexTask(t))
    /\ epc' = [epc EXCEPT ![t] = "sent"]
    /\ status' = [status EXCEPT ![t] = "Pending"]
    /\ UNCHANGED <<pending_tasks, stats, wpc, wtask, result>>
    /\ UNCHANGED notQueue

EnqueueInsert(t) ==
    /\ epc[t] = "sent"
    /\ pending_tasks' = PendingInsert(pending_tasks, NewIndexTask(t))
    /\ epc' = [epc EXCEPT ![t] = "done"]
    /\ UNCHANGED <<channel, stats, wpc, wtask, result, status>>
    /\ UNCHANGED notQueue

(***************************************************************************)
(* The worker spawned by IndexingQueue::new.                               *)
(***************************************************************************)
WorkerRecv ==
    /\ wpc = "recv"
    /\ channel # <<>>
    /\ wtask' = Head(channel)
    /\ channel' = Tail(channel)
    /\ wpc' = "index"
    /\ status' = [status EXCEPT ![Head(channel).id] = "Processing"]
    /\ UNCHANGED <<pending_tasks, stats, result, epc>>
    /\ UNCHANGED notQueue

\* service.index_message(..) returned Ok(doc_id)
IndexOk ==
    /\ wpc = "index"
    /\ result' = "Ok"
    /\ wpc' = "ok_stats"
    /\ UNCHANGED <<channel, pending_tasks, stats, wtask, epc, status>>
    /\ UNCHANGED notQueue

\* service.index_message(..) returned Err(EmbeddingError): the attempt is
\* counted and can_retry() chooses the branch
IndexEmbeddingError ==
    /\ wpc = "index"
    /\ result' = "EmbeddingError"
    /\ wtask' = increment_attempt(wtask)
    /\ wpc' = IF can_retry(wtask') THEN "retry_stats" ELSE "exhausted_stats"
    /\ UNCHANGED <<channel, pending_tasks, stats, epc, status>>
    /\ UNCHANGED notQueue

\* a worker that treats every error as an embedding error
OtherErrorAsEmbedding ==
    /\ wpc = "index"
    /\ result' = "OtherError"
    /\ wtask' = increment_attempt(wtask)
    /\ wpc' = IF can_retry(wtask') THEN "retry_stats" ELSE "exhausted_stats"
    /\ UNCHANGED <<channel, pending_tasks, stats, epc, status>>
    /\ UNCHANGED notQueue

\* service.index_message(..) returned any other error (StorageError, ...)
IndexOtherError ==
    /\ wpc = "index"
    /\ result' = "OtherError"
    /\ wpc' = "other_stats"
    /\ UNCHANGED <<channel, pending_tasks, stats, wtask, epc, status>>
    /\ UNCHANGED notQueue

\* Ok branch: stats.completed += 1
OkStats ==
    /\ wpc = "ok_stats"
    /\ stats' = [stats EXCEPT !.completed = @ + 1]
    /\ status' = [status EXCEPT ![wtask.id] = "Completed"]
    /\ wpc' = "ok_pending"
    /\ UNCHANGED <<channel, pending_tasks, wtask, result, epc>>
    /\ UNCHANGED notQueue

\* Ok branch: pending.remove(&task.id)
OkPending ==
    /\ wpc = "ok_pending"
    /\ pending_tasks' = PendingRemove(pending_tasks, wtask.id)
    /\ wpc' = "recv"
    /\ UNCHANGED <<channel, stats, wtask, result, epc, status>>
    /\ UNCHANGED notQueue

\* retry branch: stats.retries += 1; drop(stats)
RetryStats ==
    /\ wpc = "retry_stats"
    /\ stats' = [stats EXCEPT !.retries = @ + 1]
    /\ wpc' = "retry_send"
    /\ UNCHANGED <<channel, pending_tasks, wtask, result, epc, status>>
    /\ UNCHANGED notQueue

\* retry branch: sender_clone.send(task.clone()).await returns Ok once the
\* channel has room; while the channel is full the worker waits here
RetrySend ==
    /\ wpc = "retry_send"
    /\ Len(channel) < BufferSize
    /\ channel' = Append(channel, wtask)
    /\ status' = [status EXCEPT ![wtask.id] = "Pending"]
    /\ wpc' = "retry_insert"
    /\ UNCHANGED <<pending_tasks, stats, wtask, result, epc>>
    /\ UNCHANGED notQueue

\* retry branch: pending.insert(task.id, task)
RetryInsert ==
    /\ wpc = "retry_insert"
    /\ pending_tasks' = PendingInsert(pending_tasks, wtask)
    /\ wpc' = "recv"
    /\ UNCHANGED <<channel, stats, wtask, result, epc, status>>
    /\ UNCHANGED notQueue

\* max retries reached, but the failure is not counted
ExhaustedStatsUncounted ==
    /\ wpc = "exhausted_stats"
    /\ status' = [status EXCEPT ![wtask.id] = "Failed"]
    /\ wpc' = "exhausted_pending"
    /\ UNCHANGED <<channel, pending_tasks, stats, wtask, result, epc>>
    /\ UNCHANGED notQueue

\* max retries reached: stats.failed += 1
ExhaustedStats ==
    /\ wpc = "exhausted_stats"
    /\ stats' = [stats EXCEPT !.failed = @ + 1]
    /\ status' = [status EXCEPT ![wtask.id] = "Failed"]
    /\ wpc' = "exhausted_pending"
    /\ UNCHANGED <<channel, pending_tasks, wtask, result, epc>>
    /\ UNCHANGED notQueue

\* max retries reached: pending.remove(&task.id)
ExhaustedPending ==
    /\ wpc = "exhausted_pending"
    /\ pending_tasks' = PendingRemove(pending_tasks, wtask.id)
    /\ wpc' = "recv"
    /\ UNCHANGED <<channel, stats, wtask, result, epc, status>>
    /\ UNCHANGED notQueue

\* other error: stats.failed += 1
OtherStats ==
    /\ wpc = "other_stats"
    /\ stats' = [stats EXCEPT !.failed = @ + 1]
    /\ status' = [status EXCEPT ![wtask.id] = "Failed"]
    /\ wpc' = "other_pending"
    /\ UNCHANGED <<channel, pending_tasks, wtask, result, epc>>
    /\ UNCHANGED notQueue

\* other error: pending.remove(&task.id)
OtherPending ==
    /\ wpc = "other_pending"
    /\ pending_tasks' = PendingRemove(pending_tasks, wtask.id)
    /\ wpc' = "recv"
    /\ UNCHANGED <<channel, stats, wtask, result, epc, status>>
    /\ UNCHANGED notQueue

Worker ==
    \/ WorkerRecv
    \/ IndexOk
    \/ IndexEmbeddingError
    \/ IndexOtherError
    \/ OkStats
    \/ OkPending
    \/ RetryStats
    \/ RetrySend
    \/ RetryInsert
    \/ ExhaustedStats
    \/ ExhaustedPending
    \/ OtherStats
    \/ OtherPending

Enqueue(t) == EnqueueSend(t) \/ EnqueueInsert(t)

NextQueue ==
    \/ \E t \in Tasks : EnqueueSend(t)
    \/ \E t \in Tasks : EnqueueInsert(t)
    \/ WorkerRecv
    \/ IndexOk
    \/ IndexEmbeddingError
    \/ IndexOtherError
    \/ OkStats
    \/ OkPending
    \/ RetryStats
    \/ RetrySend
    \/ RetryInsert
    \/ ExhaustedStats
    \/ ExhaustedPending
    \/ OtherStats
    \/ OtherPending

InitSpecQueue ==
    InitQueue /\ InitTaskIdle /\ InitConn /\ InitGateway /\ InitSocket /\ InitOthersIdle

SpecQueue == InitSpecQueue /\ [][NextQueue]_vars

\* the runtime keeps polling the worker and every enqueue call, and every
\* index_message call returns
FairSpecQueue ==
    /\ SpecQueue
    /\ WF_vars(Worker)
    /\ \A t \in Tasks : WF_vars(Enqueue(t))

(***************************************************************************)
(* The stand-alone IndexTask: IndexTask::new(..).with_max_retries(m), then *)
(* increment_attempt() any number of times.                                *)
(***************************************************************************)
InitSpecTask ==
    /\ InitQueue
    /\ InitConn
    /\ InitGateway
    /\ InitSocket
    /\ InitOthersIdle
    /\ \E m \in 0..MaxRetriesBound : itask = with_max_retries(NewIndexTask(0), m)
    /\ icalls = 0

TaskIncrementAttempt ==
    /\ itask.attempts < MaxAttempts
    /\ itask' = increment_attempt(itask)
    /\ icalls' = icalls + 1
    /\ UNCHANGED notTask

NextTask == TaskIncrementAttempt

SpecTask == InitSpecTask /\ [][NextTask]_vars


(***************************************************************************)
(* ConnectionManager.  A caller is a task that makes one call after the    *)
(* other; a connection id is known to callers once try_add_connection has  *)
(* returned it.                                                            *)
(***************************************************************************)
\* try_add_connection on a pool that ignores the semaphore
TryAddNoPermitCheck(p) ==
    /\ cpc[p] = "idle"
    /\ next_id <= MaxConnIds
    /\ cid' = [cid EXCEPT ![p] = next_id]
    /\ next_id' = next_id + 1
    /\ cpc' = [cpc EXCEPT ![p] = "add_conn"]
    /\ cret' = [cret EXCEPT ![p] = "-"]
    /\ UNCHANGED <<connections, connection_permits, active_connections,
                   connection_slots, issued>>
    /\ UNCHANGED notConn

\* try_add_connection: try_acquire_owned().ok()? and Uuid::new_v4(), up to
\* the wait for connections.write()
TryAddStart(p) ==
    /\ cpc[p] = "idle"
    /\ next_id <= MaxConnIds
    /\ IF connection_slots > 0
       THEN /\ connection_slots' = connection_slots - 1
            /\ cid' = [cid EXCEPT ![p] = next_id]
            /\ next_id' = next_id + 1
            /\ cpc' = [cpc EXCEPT ![p] = "add_conn"]
            /\ cret' = [cret EXCEPT ![p] = "-"]
       ELSE /\ cret' = [cret EXCEPT ![p] = "None"]
            /\ UNCHANGED <<connection_slots, cid, next_id, cpc>>
    /\ UNCHANGED <<connections, connection_permits, active_connections, issued>>
    /\ UNCHANGED notConn

\* try_add_connection: connections.insert(id, connection)
TryAddInsertConnection(p) ==
    /\ cpc[p] = "add_conn"
    /\ connections' = connections \cup {cid[p]}
    /\ cpc' = [cpc EXCEPT ![p] = "add_permit"]
    /\ UNCHANGED <<connection_permits, active_connections, connection_slots,
                   cid, cret, issued, next_id>>
    /\ UNCHANGED notConn

\* try_add_connection: permits.insert(id, permit); fetch_add(1); Some(id)
TryAddInsertPermit(p) ==
    /\ cpc[p] = "add_permit"
    /\ connection_permits' = connection_permits \cup {cid[p]}
    /\ active_connections' = active_connections + 1
    /\ issued' = issued \cup {cid[p]}
    /\ cret' = [cret EXCEPT ![p] = "Some"]
    /\ cpc' = [cpc EXCEPT ![p] = "idle"]
    /\ UNCHANGED <<connections, connection_slots, cid, next_id>>
    /\ UNCHANGED notConn

\* remove_connection(id): connections.remove(&id); on None the call returns
RemoveConnection(p, id) ==
    /\ cpc[p] = "idle"
    /\ IF id \in connections
       THEN /\ connections' = connections \ {id}
            /\ cid' = [cid EXCEPT ![p] = id]
            /\ cpc' = [cpc EXCEPT ![p] = "rm_permit"]
       ELSE UNCHANGED <<connections, cid, cpc>>
    /\ UNCHANGED <<connection_permits, active_connections, connection_slots,
                   cret, issued, next_id>>
    /\ UNCHANGED notConn

\* remove_connection: permits.remove(&id) drops the OwnedSemaphorePermit,
\* which gives the permit back; fetch_sub(1)
RemovePermit(p) ==
    /\ cpc[p] = "rm_permit"
    /\ connection_permits' = connection_permits \ {cid[p]}
    /\ connection_slots' =
           connection_slots + (IF cid[p] \in connection_permits THEN 1 ELSE 0)
    /\ active_connections' = active_connections - 1
    /\ cpc' = [cpc EXCEPT ![p] = "idle"]
    /\ UNCHANGED <<connections, cid, cret, issued, next_id>>
    /\ UNCHANGED notConn

\* the future of a try_add_connection call is dropped at one of its awaits:
\* the local `permit` is dropped (returned to the semaphore); what was
\* already inserted stays
CancelTryAdd(p) ==
    /\ cpc[p] \in {"add_conn", "add_permit"}
    /\ connection_slots' = connection_slots + 1
    /\ cpc' = [cpc EXCEPT ![p] = "idle"]
    /\ UNCHANGED <<connections, connection_permits, active_connections, cid,
                   cret, issued, next_id>>
    /\ UNCHANGED notConn

\* the future of a remove_connection call is dropped while it waits for
\* connection_permits.write()
CancelRemove(p) ==
    /\ cpc[p] = "rm_permit"
    /\ cpc' = [cpc EXCEPT ![p] = "idle"]
    /\ UNCHANGED <<connections, connection_permits, active_connections,
                   connection_slots, cid, cret, issued, next_id>>
    /\ UNCHANGED notConn

\* connection_count()
connection_count == active_connections

NextConn ==
    \/ \E p \in Callers : TryAddStart(p)
    \/ \E p \in Callers : TryAddInsertConnection(p)
    \/ \E p \in Callers : TryAddInsertPermit(p)
    \/ \E p \in Callers : \E id \in issued : RemoveConnection(p, id)
    \/ \E p \in Callers : RemovePermit(p)

InitSpecConn ==
    InitQueue /\ InitTaskIdle /\ InitConn /\ InitGateway /\ InitSocket /\ InitOthersIdle

\* every call runs to completion
SpecConn == InitSpecConn /\ [][NextConn]_vars

NextConnCancel ==
    \/ NextConn
    \/ \E p \in Callers : CancelTryAdd(p)
    \/ \E p \in Callers : CancelRemove(p)

\* calls may also be cancelled at their suspension points
SpecConnCancel == InitSpecConn /\ [][NextConnCancel]_vars


(***************************************************************************)
(* Gateway write handlers: create_room, send_message, invite_member.       *)
(* Requests are numbered in the order in which their handlers start.       *)
(***************************************************************************)
\* the handler runs up to write_gate.acquire_owned().await
AcquireGate(h) ==
    LET a == acquire_owned(write_gate, gate_waiters, h) IN
    /\ write_gate' = a.gate
    /\ gate_waiters' = a.waiters
    /\ hpc' = [hpc EXCEPT ![h] = IF a.granted THEN "write" ELSE "waiting"]

\* the handler's `_permit` goes out of scope
ReleaseGate(h, pc) ==
    LET d == drop_permit(write_gate, gate_waiters) IN
    /\ write_gate' = d.gate
    /\ gate_waiters' = d.waiters
    /\ hpc' = [k \in DOMAIN hpc |->
                  IF k = h THEN pc ELSE IF k = d.wake THEN "write" ELSE hpc[k]]

\* a request arrives: validation, then create_room goes to the gate and
\* the others wait for rooms.read()
StartRequest(h, req) ==
    /\ hpc[h] = "idle"
    /\ IF h = 1 THEN TRUE ELSE hpc[h - 1] # "idle"
    /\ hreq' = [hreq EXCEPT ![h] = req]
    /\ CASE req.kind = "create_room" /\ IsBlank(req.name) ->
              /\ hresp' = [hresp EXCEPT ![h] = 400]
              /\ hpc' = [hpc EXCEPT ![h] = "done"]
              /\ UNCHANGED <<write_gate, gate_waiters, hid, next_uuid>>
         [] req.kind = "create_room" /\ ~IsBlank(req.name) ->
              /\ hid' = [hid EXCEPT ![h] = next_uuid]
              /\ next_uuid' = next_uuid + 1
              /\ AcquireGate(h)
              /\ UNCHANGED hresp
         [] req.kind = "send_message" /\ (req.room = BlankRoom \/ IsBlank(req.text)) ->
              /\ hresp' = [hresp EXCEPT ![h] = 400]
              /\ hpc' = [hpc EXCEPT ![h] = "done"]
              /\ UNCHANGED <<write_gate, gate_waiters, hid, next_uuid>>
         [] req.kind = "invite_member" /\ IsBlank(req.member) ->
              /\ hresp' = [hresp EXCEPT ![h] = 400]
              /\ hpc' = [hpc EXCEPT ![h] = "done"]
              /\ UNCHANGED <<write_gate, gate_waiters, hid, next_uuid>>
         [] OTHER ->
              /\ hpc' = [hpc EXCEPT ![h] = "check_room"]
              /\ UNCHANGED <<write_gate, gate_waiters, hid, hresp, next_uuid>>
    /\ UNCHANGED <<rooms, room_messages, room_members>>
    /\ UNCHANGED <<hbody, write_log>>
    /\ UNCHANGED notGateway

\* send_message / invite_member / get_room: rooms.read(), the lookup,
\* drop(rooms); 404, or on to the gate (send_message builds its message
\* first), or for get_room on to room_messages.read()
CheckRoom(h) ==
    /\ hpc[h] = "check_room"
    /\ IF ~contains_key(rooms, hreq[h].room)
       THEN /\ hresp' = [hresp EXCEPT ![h] = 404]
            /\ hpc' = [hpc EXCEPT ![h] = "done"]
            /\ UNCHANGED <<write_gate, gate_waiters, hid, next_uuid>>
       ELSE IF hreq[h].kind = "get_room"
       THEN /\ hpc' = [hpc EXCEPT ![h] = "read_messages"]
            /\ UNCHANGED <<write_gate, gate_waiters, hid, hresp, next_uuid>>
       ELSE /\ IF hreq[h].kind = "send_message"
               THEN /\ hid' = [hid EXCEPT ![h] = next_uuid]
                    /\ next_uuid' = next_uuid + 1
               ELSE UNCHANGED <<hid, next_uuid>>
            /\ AcquireGate(h)
            /\ UNCHANGED hresp
    /\ UNCHANGED <<rooms, room_messages, room_members, hreq>>
    /\ UNCHANGED <<hbody, write_log>>
    /\ UNCHANGED notGateway

\* create_room with the permit: rooms.write(), insert, 201
CreateRoomWrite(h) ==
    /\ hpc[h] = "write"
    /\ hreq[h].kind = "create_room"
    /\ rooms' = (hid[h] :> hreq[h].name) @@ rooms
    /\ hresp' = [hresp EXCEPT ![h] = 201]
    /\ ReleaseGate(h, "done")
    /\ UNCHANGED <<room_messages, room_members, hreq, hid, next_uuid>>
    /\ UNCHANGED <<hbody, write_log>>
    /\ UNCHANGED notGateway

\* send_message with the permit: room_messages.write(), push, 201
SendMessageWrite(h) ==
    /\ hpc[h] = "write"
    /\ hreq[h].kind = "send_message"
    /\ room_messages' = EntryPush(room_messages, hreq[h].room,
                                  [id |-> hid[h], text |-> hreq[h].text])
    /\ write_log' = Append(write_log, h)
    /\ hresp' = [hresp EXCEPT ![h] = 201]
    /\ ReleaseGate(h, "done")
    /\ UNCHANGED <<rooms, room_members, hreq, hid, next_uuid, hbody>>
    /\ UNCHANGED notGateway

\* invite_member with the permit: room_members.write(), push unless
\* already a member, 200
InviteMemberWrite(h) ==
    /\ hpc[h] = "write"
    /\ hreq[h].kind = "invite_member"
    /\ room_members' = EntryPushUnique(room_members, hreq[h].room, hreq[h].member)
    /\ hresp' = [hresp EXCEPT ![h] = 200]
    /\ ReleaseGate(h, "done")
    /\ UNCHANGED <<rooms, room_messages, hreq, hid, next_uuid>>
    /\ UNCHANGED <<hbody, write_log>>
    /\ UNCHANGED notGateway

\* get_room: room_messages.read(), the room's messages cloned, 200
GetRoomMessages(h) ==
    /\ hpc[h] = "read_messages"
    /\ hbody' = [hbody EXCEPT ![h] = GetOrDefault(room_messages, hreq[h].room)]
    /\ hresp' = [hresp EXCEPT ![h] = 200]
    /\ hpc' = [hpc EXCEPT ![h] = "done"]
    /\ UNCHANGED <<rooms, room_messages, room_members, write_gate, gate_waiters,
                   hreq, hid, write_log, next_uuid>>
    /\ UNCHANGED notGateway

\* the request task is dropped while it waits for rooms.read() or for
\* room_messages.read()
CancelAtRead(h) ==
    /\ hpc[h] \in {"check_room", "read_messages"}
    /\ hpc' = [hpc EXCEPT ![h] = "cancelled_at_read"]
    /\ UNCHANGED <<rooms, room_messages, room_members, write_gate, gate_waiters,
                   hreq, hid, hresp, next_uuid>>
    /\ UNCHANGED <<hbody, write_log>>
    /\ UNCHANGED notGateway

\* the request task is dropped while it is queued in acquire_owned().await
CancelAtGate(h) ==
    /\ hpc[h] = "waiting"
    /\ gate_waiters' = SeqRemove(gate_waiters, h)
    /\ hpc' = [hpc EXCEPT ![h] = "cancelled_at_gate"]
    /\ UNCHANGED <<rooms, room_messages, room_members, write_gate,
                   hreq, hid, hresp, next_uuid>>
    /\ UNCHANGED <<hbody, write_log>>
    /\ UNCHANGED notGateway

\* the request task is dropped while it holds the permit and waits for the
\* write lock: `_permit` is dropped with the future
CancelAtWrite(h) ==
    /\ hpc[h] = "write"
    /\ ReleaseGate(h, "cancelled_at_write")
    /\ UNCHANGED <<rooms, room_messages, room_members, hreq, hid, hresp, next_uuid>>
    /\ UNCHANGED <<hbody, write_log>>
    /\ UNCHANGED notGateway

NextGateway ==
    \/ \E h \in Handlers : \E req \in Requests : StartRequest(h, req)
    \/ \E h \in Handlers : CheckRoom(h)
    \/ \E h \in Handlers : CreateRoomWrite(h)
    \/ \E h \in Handlers : SendMessageWrite(h)
    \/ \E h \in Handlers : InviteMemberWrite(h)
    \/ \E h \in Handlers : GetRoomMessages(h)
    \/ \E h \in Handlers : CancelAtRead(h)
    \/ \E h \in Handlers : CancelAtGate(h)
    \/ \E h \in Handlers : CancelAtWrite(h)

InitSpecGateway ==
    InitQueue /\ InitTaskIdle /\ InitConn /\ InitGateway /\ InitSocket /\ InitOthersIdle

SpecGateway == InitSpecGateway /\ [][NextGateway]_vars

(***************************************************************************)
(* One room and the clients that talk in it: create_room, send_message and *)
(* get_room requests, by more clients than the write handlers above.       *)
(***************************************************************************)
RoomHandlers == 1..NumRoomHandlers

\* AppState::default(), with the handlers of the room's clients
InitRoom ==
    /\ rooms = <<>>
    /\ room_messages = <<>>
    /\ room_members = <<>>
    /\ write_gate = RoomGateCapacity
    /\ gate_waiters = <<>>
    /\ hpc = [h \in RoomHandlers |-> "idle"]
    /\ hreq = [h \in RoomHandlers |-> NoRequest]
    /\ hid = [h \in RoomHandlers |-> 0]
    /\ hresp = [h \in RoomHandlers |-> 0]
    /\ hbody = [h \in RoomHandlers |-> <<>>]
    /\ write_log = <<>>
    /\ next_uuid = 1

NextRoom ==
    \/ \E h \in RoomHandlers : \E req \in RoomRequests : StartRequest(h, req)
    \/ \E h \in RoomHandlers : CheckRoom(h)
    \/ \E h \in RoomHandlers : CreateRoomWrite(h)
    \/ \E h \in RoomHandlers : SendMessageWrite(h)
    \/ \E h \in RoomHandlers : GetRoomMessages(h)
    \/ \E h \in RoomHandlers : CancelAtRead(h)
    \/ \E h \in RoomHandlers : CancelAtGate(h)
    \/ \E h \in RoomHandlers : CancelAtWrite(h)

InitSpecRoom ==
    InitQueue /\ InitTaskIdle /\ InitConn /\ InitRoom /\ InitSocket /\ InitOthersIdle

SpecRoom == InitSpecRoom /\ [][NextRoom]_vars

(***************************************************************************)
(* handle_socket: one WebSocket connection.  The reader is the body of     *)
(* handle_socket, the writer the task it spawns; the peer is the           *)
(* environment.  What receiver.next() yields is a frame: a text, a close,  *)
(* another message (binary, ping, pong), a stream error, or the end of the *)
(* stream.                                                                 *)
(***************************************************************************)
TextFrame(payload) == [kind |-> "Text", payload |-> payload]

OtherFrame(kind) == [kind |-> kind, payload |-> ""]

Frames ==
    {TextFrame(x) : x \in {"a", "b"}}
    \cup {OtherFrame(k) : k \in {"Binary", "Close", "Error", "End"}}

\* mpsc Receiver::recv on a non-empty buffer: the oldest message
\* a receive that takes the newest message
ChannelRecvLast(ch) == [msg |-> ch[Len(ch)], rest |-> SubSeq(ch, 1, Len(ch) - 1)]

ChannelRecv(ch) == [msg |-> Head(ch), rest |-> Tail(ch)]

\* JoinHandle::abort(): the task is marked cancelled
\* an abort that has no effect
abort_ignored(flag) == flag

abort(flag) == TRUE

\* the peer sends a frame (or the stream fails or ends); nothing follows a
\* close, a failure or the end
PeerSend(f) ==
    /\ peer_frames < MaxFrames
    /\ IF inbound = <<>> THEN TRUE
       ELSE inbound[Len(inbound)].kind \notin {"Close", "Error", "End"}
    /\ rdpc # "done"
    /\ inbound' = Append(inbound, f)
    /\ peer_frames' = peer_frames + 1
    /\ UNCHANGED <<outbound, rx_open, wire, rdpc, rdmsg, wrpc, wrmsg,
                   abort_requested, received, placed, link_failed>>
    /\ UNCHANGED notSocket

\* tx.send(Message::Text(text)).await as far as it gets without waiting:
\* Err when rx is gone (break, then writer.abort()), Ok when the buffer has
\* room, otherwise the reader waits in the send
ReaderTrySend(text) ==
    IF ~rx_open
    THEN /\ rdpc' = "done"
         /\ abort_requested' = abort(abort_requested)
         /\ rdmsg' = ""
         /\ UNCHANGED <<outbound, placed>>
    ELSE IF Len(outbound) < OutboundCapacity
    THEN /\ outbound' = Append(outbound, text)
         /\ placed' = Append(placed, text)
         /\ rdpc' = "next"
         /\ rdmsg' = ""
         /\ UNCHANGED abort_requested
    ELSE /\ rdpc' = "send"
         /\ rdmsg' = text
         /\ UNCHANGED <<outbound, placed, abort_requested>>

\* the reader loop: receiver.next().await yields a frame, and the match
ReaderNext ==
    /\ rdpc = "next"
    /\ inbound # <<>>
    /\ inbound' = Tail(inbound)
    /\ LET msg == Head(inbound) IN
       CASE msg.kind = "Text" ->
              /\ received' = Append(received, msg.payload)
              /\ ReaderTrySend(msg.payload)
              /\ UNCHANGED link_failed
         [] msg.kind = "Close" ->
              /\ rdpc' = "done"
              /\ abort_requested' = abort(abort_requested)
              /\ UNCHANGED <<outbound, placed, rdmsg, received, link_failed>>
         [] msg.kind \in {"Error", "End"} ->
              /\ rdpc' = "done"
              /\ abort_requested' = abort(abort_requested)
              /\ link_failed' = TRUE
              /\ UNCHANGED <<outbound, placed, rdmsg, received>>
         [] OTHER ->
              UNCHANGED <<outbound, placed, rdpc, rdmsg, abort_requested,
                          received, link_failed>>
    /\ UNCHANGED <<peer_frames, rx_open, wire, wrpc, wrmsg>>
    /\ UNCHANGED notSocket

\* the reader waiting in tx.send(..).await is woken: the buffer has room,
\* or rx is gone
ReaderSend ==
    /\ rdpc = "send"
    /\ ~rx_open \/ Len(outbound) < OutboundCapacity
    /\ ReaderTrySend(rdmsg)
    /\ UNCHANGED <<inbound, peer_frames, rx_open, wire, wrpc, wrmsg, received,
                   link_failed>>
    /\ UNCHANGED notSocket

\* the writer: rx.recv().await yields a message
WriterRecv ==
    /\ wrpc = "recv"
    /\ outbound # <<>>
    /\ wrmsg' = ChannelRecv(outbound).msg
    /\ outbound' = ChannelRecv(outbound).rest
    /\ wrpc' = "send"
    /\ UNCHANGED <<inbound, peer_frames, rx_open, wire, rdpc, rdmsg,
                   abort_requested, received, placed, link_failed>>
    /\ UNCHANGED notSocket

\* the writer: sender.send(message).await returned Ok
WriterSendOk ==
    /\ wrpc = "send"
    /\ wire' = Append(wire, wrmsg)
    /\ wrmsg' = ""
    /\ wrpc' = "recv"
    /\ UNCHANGED <<inbound, peer_frames, outbound, rx_open, rdpc, rdmsg,
                   abort_requested, received, placed, link_failed>>
    /\ UNCHANGED notSocket

\* the writer: sender.send(message).await returned Err; break, the task
\* ends and rx is dropped with what it buffered
WriterSendErr ==
    /\ wrpc = "send"
    /\ wrmsg' = ""
    /\ wrpc' = "ended"
    /\ rx_open' = FALSE
    /\ outbound' = <<>>
    /\ link_failed' = TRUE
    /\ UNCHANGED <<inbound, peer_frames, wire, rdpc, rdmsg, abort_requested,
                   received, placed>>
    /\ UNCHANGED notSocket

\* the aborted writer is dropped at an await, with rx and the message in
\* its hand.  abort() only marks the task: a writer that a worker thread is
\* polling at that moment runs on to its next await, so the steps above
\* stay possible until this one is taken
WriterAborted ==
    /\ abort_requested
    /\ wrpc \in {"recv", "send"}
    /\ wrmsg' = ""
    /\ wrpc' = "aborted"
    /\ rx_open' = FALSE
    /\ outbound' = <<>>
    /\ UNCHANGED <<inbound, peer_frames, wire, rdpc, rdmsg, abort_requested,
                   received, placed, link_failed>>
    /\ UNCHANGED notSocket

Reader == ReaderNext \/ ReaderSend

Writer == WriterRecv \/ WriterSendOk \/ WriterSendErr \/ WriterAborted

NextSocket ==
    \/ \E f \in Frames : PeerSend(f)
    \/ ReaderNext
    \/ ReaderSend
    \/ WriterRecv
    \/ WriterSendOk
    \/ WriterSendErr
    \/ WriterAborted

InitSpecSocket ==
    InitQueue /\ InitTaskIdle /\ InitConn /\ InitGateway /\ InitSocket /\ InitOthersIdle

SpecSocket == InitSpecSocket /\ [][NextSocket]_vars

\* the runtime keeps polling the reader and the writer, and every socket
\* write returns; the peer is free to stay silent
FairSpecSocket ==
    /\ SpecSocket
    /\ WF_vars(Reader)
    /\ WF_vars(Writer)

(***************************************************************************)
(* Provider streams: what generate_stream's stream yields, for each of the *)
(* implementations, as a function of what the upstream does.  An upstream  *)
(* event is what the EventSource yields, classified by what the adapter    *)
(* finds in it:                                                            *)
(*   Open        Event::Open                                               *)
(*   Text        a message with a non-empty text delta                     *)
(*   Empty       a well-formed message with nothing to yield               *)
(*   TextStop    (OpenAI) a chunk with a text delta and a finish_reason    *)
(*   Stop        a chunk with a finish_reason / a message_stop event       *)
(*   DoneMarker  (OpenAI) the message whose data is [DONE]                 *)
(*   BadJson     a message that does not parse                             *)
(*   Error       the EventSource yields Err                                *)
(*   End         the EventSource yields None                               *)
(* What the EventSource does after it has yielded an error (end, or        *)
(* reconnect and go on) is the upstream's choice.                          *)
(***************************************************************************)
StreamProviders == {"mcp_openai", "runtime_openai", "runtime_anthropic", "http_json"}

OpenAIEvents ==
    {"Open", "Text", "Empty", "TextStop", "Stop", "DoneMarker", "BadJson", "Error", "End"}

AnthropicEvents == {"Open", "Text", "Empty", "Stop", "BadJson", "Error", "End"}

Delta == "Delta"

Done == "Done"

ErrDecode == "Err(Decode)"

ErrTransport == "Err(Transport)"

IsErr(x) == x \in {ErrDecode, ErrTransport}

\* the chunk lists a /v1/generate_stream endpoint can answer with
ChunkLists ==
    UNION {[1..n -> {Delta, Done}] : n \in 0..MaxChunks}

\* the upstream goes on for at most MaxEvents events and then ends
UpstreamYields(e) == sevents < MaxEvents \/ e = "End"

\* nexis-mcp OpenAIProvider::generate_stream: the spawned task's loop, one
\* event; every element is sent onto the channel of the ReceiverStream
McpOpenAIEvent(e) ==
    /\ sprovider = "mcp_openai"
    /\ spc = "loop"
    /\ UpstreamYields(e)
    /\ sevents' = sevents + 1
    /\ CASE e = "Open" ->
              UNCHANGED <<sout, done_sent, spc>>
         [] e = "DoneMarker" ->
              /\ sout' = Append(sout, Done)
              /\ done_sent' = TRUE
              /\ spc' = "after_loop"
         [] e = "BadJson" ->
              /\ sout' = Append(sout, ErrDecode)
              /\ spc' = "after_loop"
              /\ UNCHANGED done_sent
         [] e = "Text" ->
              /\ sout' = Append(sout, Delta)
              /\ UNCHANGED <<done_sent, spc>>
         [] e = "Empty" ->
              UNCHANGED <<sout, done_sent, spc>>
         [] e = "TextStop" ->
              /\ sout' = sout \o <<Delta, Done>>
              /\ done_sent' = TRUE
              /\ spc' = "after_loop"
         [] e = "Stop" ->
              /\ sout' = Append(sout, Done)
              /\ done_sent' = TRUE
              /\ spc' = "after_loop"
         [] e = "Error" ->
              /\ sout' = Append(sout, ErrTransport)
              /\ spc' = "after_loop"
              /\ UNCHANGED done_sent
         [] e = "End" ->
              /\ spc' = "after_loop"
              /\ UNCHANGED <<sout, done_sent>>
    /\ UNCHANGED sprovider
    /\ UNCHANGED notStream

\* nexis-mcp OpenAIProvider::generate_stream: after the loop the task sends
\* Done unless done_sent, and exits, which ends the stream
McpOpenAIAfterLoop ==
    /\ sprovider = "mcp_openai"
    /\ spc = "after_loop"
    /\ sout' = IF done_sent THEN sout ELSE Append(sout, Done)
    /\ spc' = "ended"
    /\ UNCHANGED <<sprovider, done_sent, sevents>>
    /\ UNCHANGED notStream

\* nexis-runtime OpenAIProvider::generate_stream: take_while(not [DONE]),
\* then filter_map, one event
RuntimeOpenAIEvent(e) ==
    /\ sprovider = "runtime_openai"
    /\ spc = "loop"
    /\ UpstreamYields(e)
    /\ sevents' = sevents + 1
    /\ CASE e \in {"DoneMarker", "End"} ->
              /\ spc' = "chain"
              /\ UNCHANGED sout
         [] e \in {"Text", "TextStop"} ->
              /\ sout' = Append(sout, Delta)
              /\ UNCHANGED spc
         [] e = "BadJson" ->
              /\ sout' = Append(sout, ErrDecode)
              /\ UNCHANGED spc
         [] e = "Error" ->
              /\ sout' = Append(sout, ErrTransport)
              /\ UNCHANGED spc
         [] OTHER ->
              UNCHANGED <<sout, spc>>
    /\ UNCHANGED <<sprovider, done_sent>>
    /\ UNCHANGED notStream

\* nexis-runtime OpenAIProvider::generate_stream: .chain(iter([Ok(Done)]))
RuntimeOpenAIChain ==
    /\ sprovider = "runtime_openai"
    /\ spc = "chain"
    /\ sout' = Append(sout, Done)
    /\ spc' = "ended"
    /\ UNCHANGED <<sprovider, done_sent, sevents>>
    /\ UNCHANGED notStream

\* nexis-runtime AnthropicProvider::generate_stream: filter_map over the
\* EventSource with parse_stream_chunk, one event
RuntimeAnthropicEvent(e) ==
    /\ sprovider = "runtime_anthropic"
    /\ spc = "loop"
    /\ UpstreamYields(e)
    /\ sevents' = sevents + 1
    /\ CASE e = "End" ->
              /\ spc' = "ended"
              /\ UNCHANGED sout
         [] e = "Text" ->
              /\ sout' = Append(sout, Delta)
              /\ UNCHANGED spc
         [] e = "Stop" ->
              /\ sout' = Append(sout, Done)
              /\ UNCHANGED spc
         [] e = "BadJson" ->
              /\ sout' = Append(sout, ErrDecode)
              /\ UNCHANGED spc
         [] e = "Error" ->
              /\ sout' = Append(sout, ErrTransport)
              /\ UNCHANGED spc
         [] OTHER ->
              UNCHANGED <<sout, spc>>
    /\ UNCHANGED <<sprovider, done_sent>>
    /\ UNCHANGED notStream

\* HttpJsonProvider::generate_stream, /v1/generate_stream answered with a
\* chunk list: the stream is stream::iter of that list
HttpJsonChunks(chunks) ==
    /\ sprovider = "http_json"
    /\ spc = "loop"
    /\ sout' = chunks
    /\ spc' = "ended"
    /\ UNCHANGED <<sprovider, done_sent, sevents>>
    /\ UNCHANGED notStream

\* HttpJsonProvider::generate_stream, /v1/generate_stream answered 404 and
\* generate() succeeded: one Delta with the content, then Done
HttpJsonFallback ==
    /\ sprovider = "http_json"
    /\ spc = "loop"
    /\ sout' = <<Delta, Done>>
    /\ spc' = "ended"
    /\ UNCHANGED <<sprovider, done_sent, sevents>>
    /\ UNCHANGED notStream

NextStream ==
    \/ \E e \in OpenAIEvents : McpOpenAIEvent(e)
    \/ McpOpenAIAfterLoop
    \/ \E e \in OpenAIEvents : RuntimeOpenAIEvent(e)
    \/ RuntimeOpenAIChain
    \/ \E e \in AnthropicEvents : RuntimeAnthropicEvent(e)
    \/ \E chunks \in ChunkLists : HttpJsonChunks(chunks)
    \/ HttpJsonFallback

\* generate_stream has returned Ok(stream) for one of the providers
InitSpecStream ==
    /\ InitQueue
    /\ InitTaskIdle
    /\ InitConn
    /\ InitGateway
    /\ InitSocket
    /\ InitLaterIdle
    /\ InitRetryIdle
    /\ InitControlIdle
    /\ sprovider \in StreamProviders
    /\ spc = "loop"
    /\ sout = <<>>
    /\ done_sent = FALSE
    /\ sevents = 0

SpecStream == InitSpecStream /\ [][NextStream]_vars

(***************************************************************************)
(* The retry loop of HttpJsonProvider::post_json_with_retry and of         *)
(* OpenAIEmbeddingProvider::embed / embed_batch.  The two loops are the    *)
(* same code; each uses the is_retriable of its own file.                  *)
(***************************************************************************)
OkResult == [kind |-> "Ok", status |-> 200]

TransportError == [kind |-> "Transport", status |-> 0]

DecodeError == [kind |-> "Decode", status |-> 0]

HttpStatus(s) == [kind |-> "HttpStatus", status |-> s]

\* RetryExhausted { attempts, last_error }
RetryExhausted(n, last) == [kind |-> "RetryExhausted", status |-> n, last |-> last]

\* the statuses that !status.is_success() lets through as HttpStatus
FailureStatuses == {400, 404, 429, 499, 500, 503}

AttemptResults ==
    {OkResult, TransportError, DecodeError} \cup {HttpStatus(s) : s \in FailureStatuses}

\* nexis-runtime/src/lib.rs
\* a classification that takes every error for retriable
is_retriable_any(err) == TRUE

is_retriable(err) ==
    CASE err.kind \in {"Transport", "RetryExhausted"} -> TRUE
      [] err.kind = "HttpStatus" -> err.status >= 500
      [] OTHER -> FALSE

\* nexis-runtime/src/embedding/openai.rs
embedding_is_retriable(err) ==
    CASE err.kind = "Transport" -> TRUE
      [] err.kind = "HttpStatus" -> err.status >= 500 \/ err.status = 429
      [] OTHER -> FALSE

RetriableFor(client, err) ==
    IF client = "provider" THEN is_retriable(err) ELSE embedding_is_retriable(err)

\* one pass of the loop body: try_post_json / try_embed returned res
RetryAttempt(res) ==
    /\ rpc = "try"
    /\ rcalls' = rcalls + 1
    /\ rlast' = res
    /\ IF res.kind = "Ok"
       THEN /\ rret' = res
            /\ rpc' = "returned"
       ELSE IF RetriableFor(rclient, res) /\ rattempt < rmax
       THEN /\ rpc' = "sleep"
            /\ UNCHANGED rret
       ELSE IF RetriableFor(rclient, res)
       THEN /\ rret' = RetryExhausted(rattempt + 1, res)
            /\ rpc' = "returned"
       ELSE /\ rret' = res
            /\ rpc' = "returned"
    /\ rsleeps' = IF rpc' = "sleep" THEN Append(rsleeps, rattempt) ELSE rsleeps
    /\ rhist' = Append(rhist, res)
    /\ UNCHANGED <<rclient, rmax, rattempt>>
    /\ UNCHANGED notRetry

\* sleep(backoff(..)).await is over; continue with the next attempt
RetryWake ==
    /\ rpc = "sleep"
    /\ rattempt' = rattempt + 1
    /\ rpc' = "try"
    /\ UNCHANGED <<rclient, rmax, rcalls, rlast, rsleeps, rhist, rret>>
    /\ UNCHANGED notRetry

NextRetry ==
    \/ \E res \in AttemptResults : RetryAttempt(res)
    \/ RetryWake

\* a request enters the loop of a client built with_retry_policy(m, ..)
InitSpecRetry ==
    /\ InitQueue
    /\ InitTaskIdle
    /\ InitConn
    /\ InitGateway
    /\ InitSocket
    /\ InitLaterIdle
    /\ InitStreamIdle
    /\ InitControlIdle
    /\ rclient \in {"provider", "embedding"}
    /\ rmax \in 0..MaxRetryPolicy
    /\ rattempt = 0
    /\ rpc = "try"
    /\ rcalls = 0
    /\ rlast = NoResult
    /\ rsleeps = <<>>
    /\ rhist = <<>>
    /\ rret = NoResult

SpecRetry == InitSpecRetry /\ [][NextRetry]_vars

(***************************************************************************)
(* ControlPlaneClient: enqueue_generate / enqueue_tool_call and drain_once *)
(* calls made one after the other.  dispatch_task is a run of the          *)
(* HttpJsonProvider's post_json_with_retry (the retry loop above).         *)
(***************************************************************************)
OkSome == [kind |-> "OkSome", status |-> 0]

OkNone == [kind |-> "OkNone", status |-> 0]

\* a push_task that puts the task at the front of the queue
push_task_front(queue, task) == <<task>> \o queue

\* ControlPlaneClient::push_task: queue.push_back(task)
push_task(queue, task) == Append(queue, task)

CpQueueIds == {cp_queue[i].id : i \in 1..Len(cp_queue)}

\* enqueue_generate / enqueue_tool_call: push_task with attempts 0
CpEnqueue ==
    /\ cp_next <= NumCpTasks
    /\ cp_queue' = push_task(cp_queue, [id |-> cp_next, attempts |-> 0])
    /\ cp_dispatched' = (cp_next :> 0) @@ cp_dispatched
    /\ cp_next' = cp_next + 1
    /\ UNCHANGED <<cp_max, dpc, dtask, dret>>
    /\ UNCHANGED retryVars
    /\ UNCHANGED notControl

\* drain_once: pop_front; None returns Ok(None), Some(task) goes on to
\* dispatch_task, which enters post_json_with_retry
DrainPop ==
    /\ dpc = "idle"
    /\ IF cp_queue = <<>>
       THEN /\ dret' = OkNone
            /\ UNCHANGED <<cp_queue, dpc, dtask, cp_dispatched>>
            /\ UNCHANGED retryVars
       ELSE /\ dtask' = Head(cp_queue)
            /\ cp_queue' = Tail(cp_queue)
            /\ dpc' = "dispatch"
            /\ dret' = NoResult
            /\ cp_dispatched' = [cp_dispatched EXCEPT ![Head(cp_queue).id] = @ + 1]
            /\ rattempt' = 0
            /\ rpc' = "try"
            /\ rcalls' = 0
            /\ rlast' = NoResult
            /\ rsleeps' = <<>>
            /\ rhist' = <<>>
            /\ rret' = NoResult
            /\ UNCHANGED <<rclient, rmax>>
    /\ UNCHANGED <<cp_max, cp_next>>
    /\ UNCHANGED notControl

\* drain_once: dispatch_task has returned, the match on its result
DrainDispatched ==
    /\ dpc = "dispatch"
    /\ rpc = "returned"
    /\ rpc' = "idle"
    /\ IF rret.kind = "Ok"
       THEN /\ dret' = OkSome
            /\ dpc' = "idle"
            /\ UNCHANGED <<cp_queue, dtask>>
       ELSE IF is_retriable(rret)
       THEN /\ dtask' = [dtask EXCEPT !.attempts = @ + 1]
            /\ IF dtask'.attempts < cp_max
               THEN /\ cp_queue' = push_task(cp_queue, dtask')
                    /\ dpc' = "sleep"
                    /\ UNCHANGED dret
               ELSE /\ dret' = RetryExhausted(dtask'.attempts, rret)
                    /\ dpc' = "idle"
                    /\ UNCHANGED cp_queue
       ELSE /\ dret' = rret
            /\ dpc' = "idle"
            /\ UNCHANGED <<cp_queue, dtask>>
    /\ UNCHANGED <<cp_max, cp_next, cp_dispatched>>
    /\ UNCHANGED <<rclient, rmax, rattempt, rcalls, rlast, rsleeps, rhist, rret>>
    /\ UNCHANGED notControl

\* drain_once: sleep(self.retry_delay).await is over, Ok(None)
DrainWake ==
    /\ dpc = "sleep"
    /\ dret' = OkNone
    /\ dpc' = "idle"
    /\ UNCHANGED <<cp_queue, cp_max, cp_next, dtask, cp_dispatched>>
    /\ UNCHANGED retryVars
    /\ UNCHANGED notControl

\* the steps of post_json_with_retry inside dispatch_task
DispatchAttempt(res) == dpc = "dispatch" /\ RetryAttempt(res)

DispatchWake == dpc = "dispatch" /\ RetryWake

NextControl ==
    \/ CpEnqueue
    \/ DrainPop
    \/ \E res \in AttemptResults : DispatchAttempt(res)
    \/ DispatchWake
    \/ DrainDispatched
    \/ DrainWake

\* ControlPlaneClient::new(HttpJsonProvider::new(..).with_retry_policy(m, ..))
\*     .with_retry_policy(a, ..)
InitSpecControl ==
    /\ InitQueue
    /\ InitTaskIdle
    /\ InitConn
    /\ InitGateway
    /\ InitSocket
    /\ InitLaterIdle
    /\ InitStreamIdle
    /\ rclient = "provider"
    /\ rmax \in 0..MaxRetryPolicy
    /\ rattempt = 0
    /\ rpc = "idle"
    /\ rcalls = 0
    /\ rlast = NoResult
    /\ rsleeps = <<>>
    /\ rhist = <<>>
    /\ rret = NoResult
    /\ cp_queue = <<>>
    /\ cp_max \in 1..MaxTaskAttempts
    /\ cp_next = 1
    /\ dpc = "idle"
    /\ dtask = NoCpTask
    /\ dret = NoResult
    /\ cp_dispatched = <<>>

SpecControl == InitSpecControl /\ [][NextControl]_vars

(***************************************************************************)
(* Claims about the IndexingQueue                                          *)
(***************************************************************************)
Terminal(t) == status[t] \in {"Completed", "Failed"}

\* C1: every task the channel accepted from enqueue eventually reaches a
\* terminal outcome (Completed or Failed) and is out of the pending set,
\* given that index_message always returns and the worker and the enqueue
\* calls keep being scheduled.
C1_EveryTaskTerminates ==
    \A t \in Tasks :
        (epc[t] # "new") ~> (Terminal(t) /\ t \notin DOMAIN pending_tasks)

\* C2: when a retryable task meets a saturated channel at the re-enqueue,
\* the worker does not wait for channel space: it has a step to take (the
\* drop counted as a failure).
C2_WorkerNeverWaitsForSpace ==
    (wpc = "retry_send" /\ Len(channel) >= BufferSize) => ENABLED Worker

\* C3: stats().pending is the number of tasks buffered in the channel plus
\* the one in flight; read when no enqueue call is half-way and the worker
\* is idle, it is the channel's length (0 once every task is done).
C3_PendingIsChannelPlusInFlight ==
    (wpc = "recv" /\ \A t \in Tasks : epc[t] # "sent")
        => QueueStatsNow.pending = Len(channel)

\* C4: an index_message error other than an embedding error is never
\* retried: the attempt is not counted, failed grows by exactly one, the
\* task is removed from pending and never put back on the channel.
C4_OtherErrorFailsOnce ==
    [][ /\ (wpc = "index" /\ wpc' # "index" /\ result' = "OtherError")
            => (wpc' = "other_stats" /\ wtask' = wtask /\ stats' = stats)
        /\ (wpc = "other_stats" /\ wpc' # wpc)
            => /\ stats' = [stats EXCEPT !.failed = @ + 1]
               /\ channel' = channel
               /\ wpc' = "other_pending"
        /\ (wpc = "other_pending" /\ wpc' # wpc)
            => /\ stats' = stats
               /\ channel' = channel
               /\ wtask.id \notin DOMAIN pending_tasks'
               /\ wpc' = "recv"
        /\ (result' = "OtherError" /\ wpc' # "index")
            => wtask'.id \notin {channel'[i].id : i \in 1..Len(channel')}
      ]_vars

\* C4 witness: a task that had already been retried hit a storage error and
\* was failed and dropped
C4_Witness ==
    /\ result = "OtherError"
    /\ wpc = "recv"
    /\ wtask.attempts >= 1
    /\ status[wtask.id] = "Failed"
    /\ wtask.id \notin DOMAIN pending_tasks
    /\ stats.failed = 1
    /\ stats.retries >= 1

(***************************************************************************)
(* Claims about IndexTask                                                  *)
(***************************************************************************)
\* C5: after any number of increment_attempt calls on a task created with
\* attempts = 0, can_retry() is true exactly while fewer than max_retries
\* calls have been made: it turns false on the call that makes attempts
\* reach max_retries and stays false on every later call.
C5_CanRetryUntilMaxRetries ==
    /\ can_retry(itask) <=> (icalls < itask.max_retries)
    /\ itask.attempts = icalls

\* C5 witness: the call that reached max_retries has been made
C5_Witness ==
    /\ itask.max_retries >= 2
    /\ icalls = itask.max_retries
    /\ ~can_retry(itask)

(***************************************************************************)
(* Claims about the ConnectionManager                                      *)
(***************************************************************************)
CallersIdle == \A p \in Callers : cpc[p] = "idle"

C10_RemovalFreesSlot ==
    (CallersIdle /\ Cardinality(connections) < MaxConnections)
        => connection_slots > 0

(***************************************************************************)
(* Claims about the gateway's admission semaphore                          *)
(***************************************************************************)
\* the handlers whose `_permit` is alive
PermitHolders == {h \in Handlers : hpc[h] = "write"}

\* C6: the number of admission permits held by handlers never exceeds the
\* capacity of the write_gate semaphore.
C6_HeldPermitsWithinCapacity == Cardinality(PermitHolders) <= WriteGateCapacity

\* C6 witness: every permit is held and a further write request is there
C6_Witness ==
    /\ Cardinality(PermitHolders) = WriteGateCapacity
    /\ gate_waiters # <<>>

\* C7: a permit is held from its acquisition to the handler's exit and is
\* given back on every exit (return or cancellation): the permits left and
\* the permits held always add up to the capacity, a write is answered only
\* by a handler holding a permit, and a handler that has left holds none.
C7_PermitsReleasedOnEveryExit ==
    [][ /\ write_gate' + Cardinality({h \in Handlers : hpc'[h] = "write"})
               = WriteGateCapacity
        /\ \A h \in Handlers :
               (hreq[h].kind # "get_room" /\ hresp[h] = 0 /\ hresp'[h] \in {200, 201})
                   => hpc[h] = "write"
        /\ (\A h \in Handlers : hpc'[h] \notin {"write", "waiting"})
               => write_gate' = WriteGateCapacity
      ]_vars

\* C7 witness: one write returned normally, one request returned an error,
\* one was cancelled while it held a permit, and all permits are back
C7_Witness ==
    /\ \E h \in Handlers : hpc[h] = "done" /\ hresp[h] = 201
    /\ \E h \in Handlers : hpc[h] = "done" /\ hresp[h] = 404
    /\ \E h \in Handlers : hpc[h] = "cancelled_at_write"
    /\ write_gate = WriteGateCapacity

\* C8: a write request that finds every admission permit held is answered
\* (503) and not queued behind the semaphore.
C8_SaturatedRequestNotQueued ==
    \A h \in Handlers : hpc[h] = "waiting" => hresp[h] = 503

(***************************************************************************)
(* Claims about rooms, messages and members                                *)
(***************************************************************************)
\* the StoredMessage that the send_message handler h built
MessageOf(h) == [id |-> hid[h], text |-> hreq[h].text]

\* the handlers of write_log that wrote to room r, in write_log's order
WritersOf(r) == SelectSeq(write_log, LAMBDA h : hreq[h].room = r)

IsPrefix(p, q) == Len(p) <= Len(q) /\ \A i \in 1..Len(p) : p[i] = q[i]

\* C11: a room's message list is exactly the messages of the send_message
\* calls answered 201, each once, in the order in which the calls got the
\* write lock; and what a get_room response returned is that list as it was
\* when the response was built: a prefix of the list now, in append order.
C11_MessagesInWriteLockOrder ==
    /\ \A r \in DOMAIN room_messages :
          room_messages[r] =
              [i \in 1..Len(WritersOf(r)) |-> MessageOf(WritersOf(r)[i])]
    /\ \A h \in DOMAIN hpc :
          (hreq[h].kind = "send_message" /\ hresp[h] = 201)
              <=> (Cardinality({i \in 1..Len(write_log) : write_log[i] = h}) = 1)
    /\ \A i \in 1..Len(write_log) : hresp[write_log[i]] = 201
    /\ \A h \in DOMAIN hpc :
          (hreq[h].kind = "get_room" /\ hresp[h] = 200)
              => IsPrefix(hbody[h], GetOrDefault(room_messages, hreq[h].room))

\* C11 witness: two send_message calls got the write lock in the order
\* opposite to the one in which they built their messages, and a get_room
\* response returned both messages in append order
C11_Witness ==
    \E h \in DOMAIN hpc :
        /\ hreq[h].kind = "get_room"
        /\ hresp[h] = 200
        /\ Len(hbody[h]) = 2
        /\ hbody[h][1].id > hbody[h][2].id
        /\ hbody[h] = room_messages[hreq[h].room]

\* C12: a send_message whose roomId is not a key of the rooms map when the
\* handler looks it up is answered 404 and stores nothing, whatever the
\* other handlers are doing; a message is only ever stored under the id of
\* an existing room, by a call that is answered 201.
C12_UnknownRoomRejected ==
    [][ /\ \A h \in Handlers :
              /\ ( /\ hreq[h].kind = "send_message"
                   /\ hpc[h] = "check_room"
                   /\ hpc'[h] \notin {"check_room", "cancelled_at_read"}
                   /\ hreq[h].room \notin DOMAIN rooms )
                    => /\ hresp'[h] = 404
                       /\ hpc'[h] = "done"
                       /\ room_messages' = room_messages
              /\ (hreq[h].kind = "send_message" /\ hresp[h] = 0 /\ hresp'[h] = 404)
                    => /\ hreq[h].room \notin DOMAIN rooms
                       /\ room_messages' = room_messages
              /\ (hresp[h] = 404) => (hresp'[h] = 404 /\ hpc'[h] = "done")
        /\ \A i \in 1..Len(write_log') : hresp'[write_log'[i]] = 201
        /\ DOMAIN room_messages' \subseteq DOMAIN rooms'
      ]_vars

\* C12 witness: a send_message to a room nobody created was answered 404
\* while another send_message was stored, and nothing is stored for it
C12_Witness ==
    /\ \E h \in Handlers :
          /\ hreq[h] = SendMessageRequest(MissingRoom, "hello")
          /\ hresp[h] = 404
    /\ \E h \in Handlers : hreq[h].kind = "send_message" /\ hresp[h] = 201
    /\ MissingRoom \notin DOMAIN room_messages

\* the members of room r as a set
MemberSet(m, r) == IF r \in DOMAIN m THEN {m[r][i] : i \in 1..Len(m[r])} ELSE {}

\* C13: invite_member is idempotent: an invite of somebody who is already
\* a member leaves the member lists as they are and is answered 200 like a
\* first invite, and no member id is ever twice in a room's member list.
C13_InviteIdempotent ==
    [][ /\ \A h \in Handlers :
              ( /\ hreq[h].kind = "invite_member"
                /\ hpc[h] = "write"
                /\ hpc'[h] = "done" )
                  => /\ hresp'[h] = 200
                     /\ hreq[h].member \in MemberSet(room_members', hreq[h].room)
                     /\ (hreq[h].member \in MemberSet(room_members, hreq[h].room))
                            => room_members' = room_members
        /\ \A r \in DOMAIN room_members' :
              \A i, j \in 1..Len(room_members'[r]) :
                  room_members'[r][i] = room_members'[r][j] => i = j
      ]_vars

\* C13 witness: the same member was invited to the same room twice, both
\* invites were answered 200, and the member is in the list once
C13_Witness ==
    \E h1, h2 \in Handlers :
        /\ h1 # h2
        /\ hreq[h1] = InviteMemberRequest(1, "alice")
        /\ hreq[h2] = InviteMemberRequest(1, "alice")
        /\ hresp[h1] = 200
        /\ hresp[h2] = 200
        /\ room_members[1] = <<"alice">>

\* C14: a room is created with no messages and no members, and no step
\* removes a room, a stored message or a member: rooms stay, every message
\* list only grows by one append at its end, every member list only grows,
\* and only by the write of an invite_member.
C14_RoomsOnlyGrow ==
    [][ /\ \A r \in DOMAIN rooms : r \in DOMAIN rooms' /\ rooms'[r] = rooms[r]
        /\ \A r \in (DOMAIN rooms') \ (DOMAIN rooms) :
              /\ GetOrDefault(room_messages', r) = <<>>
              /\ GetOrDefault(room_members', r) = <<>>
        /\ \A r \in DOMAIN room_messages :
              /\ r \in DOMAIN room_messages'
              /\ IsPrefix(room_messages[r], room_messages'[r])
              /\ Len(room_messages'[r]) <= Len(room_messages[r]) + 1
        /\ \A r \in DOMAIN room_members :
              /\ r \in DOMAIN room_members'
              /\ IsPrefix(room_members[r], room_members'[r])
        /\ (room_members' # room_members)
              => \E h \in Handlers :
                    /\ hreq[h].kind = "invite_member"
                    /\ hpc[h] = "write"
                    /\ hpc'[h] = "done"
      ]_vars

\* C14 witness: a second message was appended to a room that had one
C14_Witness ==
    /\ 1 \in DOMAIN rooms
    /\ 1 \in DOMAIN room_messages
    /\ Len(room_messages[1]) = 2
    /\ room_messages[1][1].id < room_messages[1][2].id

(***************************************************************************)
(* Claims about the WebSocket connection                                   *)
(***************************************************************************)
\* C15: what is written to the peer is, frame by frame, what was placed on
\* the outbound channel, in the same order, and that is what was received
\* as text, in the order received: no echo is reordered or duplicated, and
\* the socket only ever gets one more frame at the end.
C15_EchoesInOrder ==
    [][ /\ IsPrefix(wire', placed')
        /\ IsPrefix(placed', received')
        /\ IsPrefix(wire, wire')
        /\ Len(wire') <= Len(wire) + 1
      ]_vars

\* C15 witness: two different texts were received, placed on the channel
\* together and written in that order
C15_Witness ==
    /\ Len(wire) = 2
    /\ wire[1] # wire[2]
    /\ wire = received

\* C16: every text frame the reader has received is eventually written
\* back to the peer, also when a close frame follows it (unless the stream
\* or a socket write failed).
C16_EveryTextEchoed ==
    \A n \in 1..MaxFrames :
        (Len(received) >= n) ~> (Len(wire) >= n \/ link_failed)

\* C17: the reader ends on a close frame, on a stream error or end, and on
\* a failed send onto the channel, and calls writer.abort() as it ends;
\* after that the writer ends too, and once both have ended nothing is
\* written to the socket.
C17_ReaderEndAbortsWriter ==
    /\ [][ /\ ( /\ rdpc = "next"
                 /\ inbound' # inbound
                 /\ Len(inbound') < Len(inbound)
                 /\ Head(inbound).kind \in {"Close", "Error", "End"} )
                  => rdpc' = "done"
           /\ (rdpc # "done" /\ rdpc' # rdpc /\ ~rx_open) => rdpc' = "done"
           /\ (rdpc # "done" /\ rdpc' = "done") => abort_requested'
           /\ (rdpc = "done") => rdpc' = "done"
           /\ (wrpc \in {"ended", "aborted"}) => wrpc' = wrpc
           /\ (rdpc = "done" /\ wrpc \in {"ended", "aborted"}) => wire' = wire
         ]_vars
    /\ (rdpc = "done") ~> (wrpc \in {"ended", "aborted"})

\* C17 witness: the reader ended on a close frame while the writer had a
\* frame in its hand and another in the channel, and the writer is gone
\* without having written them
C17_Witness ==
    /\ rdpc = "done"
    /\ wrpc = "aborted"
    /\ ~link_failed
    /\ Len(placed) > Len(wire)

(***************************************************************************)
(* Claims about provider streams and the retry policy                      *)
(***************************************************************************)
\* the positions of s that hold x
PositionsOf(s, x) == {i \in 1..Len(s) : s[i] = x}

\* C18: every stream that generate_stream returned, once it has ended, has
\* yielded exactly one Done, as its last element (whatever Delta elements
\* and errors came before).
C18_StreamEndsWithOneDone ==
    (spc = "ended") => (sout # <<>> /\ PositionsOf(sout, Done) = {Len(sout)})

\* C19: a provider stream closes on its first error: an error is the last
\* element the stream yields, and the code feeding the stream has left
\* its loop.
C19_NothingAfterError ==
    \A i \in 1..Len(sout) :
        IsErr(sout[i]) => (i = Len(sout) /\ spc # "loop")

\* the failures that the retry policy names as retriable
PolicyRetriable(err) ==
    \/ err.kind = "Transport"
    \/ err.kind = "HttpStatus" /\ (err.status >= 500 \/ err.status = 429)

\* C20: a failed provider or embedding attempt that has retries left is
\* retried if and only if it failed with a transport failure, a 5xx status
\* or 429.
C20_RetriedIffTransport5xx429 ==
    [][ (rpc = "try" /\ rcalls' = rcalls + 1 /\ rlast'.kind # "Ok" /\ rattempt < rmax)
            => ((rpc' = "sleep") <=> PolicyRetriable(rlast'))
      ]_vars

\* C21: a retriable failure (transport, 5xx, 429) reaches the caller only
\* as RetryExhausted after max_retries + 1 attempts: a request that has
\* returned Ok returns the result of its last attempt, the first that
\* succeeded; a request none of whose attempts succeeded and all of whose
\* attempts failed retriably has made exactly max_retries + 1 attempts and
\* returns RetryExhausted with that count and the last error.
C21_RetriableOnlyAfterExhaustion ==
    (rpc = "returned") =>
        /\ ~PolicyRetriable(rret)
        /\ (\E i \in 1..Len(rhist) : rhist[i].kind = "Ok")
              => /\ rret = rhist[Len(rhist)]
                 /\ rret.kind = "Ok"
                 /\ \A i \in 1..(Len(rhist) - 1) : rhist[i].kind # "Ok"
        /\ (\A i \in 1..Len(rhist) : PolicyRetriable(rhist[i]))
              => /\ Len(rhist) = rmax + 1
                 /\ rret = RetryExhausted(rmax + 1, rhist[Len(rhist)])

(***************************************************************************)
(* Claims about the ControlPlaneClient and its requests                    *)
(***************************************************************************)
\* a failure that the retry policy does not name as retriable
NonRetriableFailure(res) ==
    res.kind \notin {"Ok", "RetryExhausted"} /\ ~PolicyRetriable(res)

\* C22: a non-retriable error surfaces immediately: the attempt that fails
\* with it ends the request, which returns that error unwrapped and has
\* slept only before its earlier retries (a request that fails this way
\* on its first attempt is attempted once and never sleeps); drain_once
\* returns the error too and does not put the task back on the queue.
C22_NonRetriableSurfacesAtOnce ==
    [][ /\ (rpc = "try" /\ Len(rhist') = Len(rhist) + 1
                /\ NonRetriableFailure(rhist'[Len(rhist')]))
            => /\ rpc' = "returned"
               /\ rret' = rhist'[Len(rhist')]
               /\ rsleeps' = rsleeps
               /\ Len(rsleeps') = Len(rhist) 
               /\ (rhist = <<>>) => (rcalls' = 1 /\ rsleeps' = <<>>)
        /\ (rpc = "returned") => (rcalls' = rcalls \/ rpc' = "try")
        /\ (dpc = "dispatch" /\ dpc' # "dispatch" /\ NonRetriableFailure(rret))
            => /\ dret' = rret
               /\ dpc' = "idle"
               /\ cp_queue' = cp_queue
               /\ dtask.id \notin {cp_queue'[i].id : i \in 1..Len(cp_queue')}
      ]_vars

\* C22 witness: a task whose first dispatch was answered 400 at the first
\* attempt was returned as that error by drain_once and is not queued,
\* although retries and task attempts were left
C22_Witness ==
    /\ dpc = "idle"
    /\ dret = HttpStatus(400)
    /\ rhist = <<HttpStatus(400)>>
    /\ rsleeps = <<>>
    /\ rmax >= 1
    /\ cp_max >= 2
    /\ dtask.id \notin CpQueueIds
    /\ cp_dispatched[dtask.id] = 1

\* C26: when the dispatch of a task fails with a retriable error
\* (is_retriable of runtime/lib.rs), drain_once counts the attempt; while
\* the count is below max_task_attempts it puts the task, with the new
\* count, at the end of the queue and, after its sleep, returns Ok(None);
\* when the count reaches max_task_attempts it returns RetryExhausted with
\* attempts = max_task_attempts and the task is not in the queue.  No task
\* is dispatched more than max_task_attempts times.
C26_RequeueUntilTaskAttemptsExhausted ==
    /\ [](\A id \in DOMAIN cp_dispatched : cp_dispatched[id] <= cp_max)
    /\ [](\A i \in 1..Len(cp_queue) : cp_queue[i].attempts < cp_max)
    /\ [][ /\ (dpc = "dispatch" /\ dpc' # "dispatch" /\ is_retriable(rret))
                => IF dtask.attempts + 1 < cp_max
                   THEN /\ cp_queue' = cp_queue \o
                              <<[id |-> dtask.id, attempts |-> dtask.attempts + 1]>>
                        /\ dpc' = "sleep"
                        /\ dret' = NoResult
                   ELSE /\ dret' = RetryExhausted(cp_max, rret)
                        /\ dtask.attempts + 1 = cp_max
                        /\ dpc' = "idle"
                        /\ cp_queue' = cp_queue
                        /\ \A i \in 1..Len(cp_queue') : cp_queue'[i].id # dtask.id
           /\ (dpc = "sleep" /\ dpc' # "sleep")
                => (dret' = OkNone /\ dpc' = "idle" /\ cp_queue' = cp_queue)
          ]_vars

\* C26 witness: task 1 failed its first dispatch with a retriable error
\* while task 2 was queued, was put behind task 2 with one attempt counted
\* (drain_once returned Ok(None)), and its second dispatch ended the
\* task with RetryExhausted at attempts = max_task_attempts = 2
C26_Witness ==
    /\ cp_max = 2
    /\ dpc = "idle"
    /\ dtask = [id |-> 1, attempts |-> 2]
    /\ dret.kind = "RetryExhausted"
    /\ dret.status = 2
    /\ cp_dispatched = (1 :> 2) @@ (2 :> 1)
    /\ cp_queue = <<>>

(***************************************************************************)
(* Indexing retry: RetryPolicy and with_retry                              *)
(* (nexis-gateway/src/indexing/retry.rs)                                   *)
(*                                                                         *)
(* Delays are whole milliseconds (u64).  The f64 multiplier is kept in     *)
(* halves: multiplier2 = 3 is the multiplier 1.5.  For the small numbers   *)
(* used here the f64 product is exact, and `as u64` drops its fraction.    *)
(***************************************************************************)
Some(ms) == [some |-> TRUE, ms |-> ms]
None == [some |-> FALSE, ms |-> 0]

Min(a, b) == IF a <= b THEN a ELSE b

\* the RetryConfig values of the runs
RetryConfigs ==
    [max_retries : 0..MaxIndexRetries,
     initial_delay_ms : 1..MaxDelayMs,
     max_delay_ms : 1..MaxDelayMs,
     multiplier2 : 1..MaxMultiplier2]

\* a next_delay that never runs out of delays
next_delay_endless(config, policy) ==
    [ret |-> Some(policy.current_delay_ms),
     policy |->
         [current_attempt |-> policy.current_attempt + 1,
          current_delay_ms |->
              Min((policy.current_delay_ms * config.multiplier2) \div 2,
                  config.max_delay_ms)]]

\* RetryPolicy::next_delay: what it returns and the policy it leaves
next_delay(config, policy) ==
    IF policy.current_attempt >= config.max_retries
    THEN [ret |-> None, policy |-> policy]
    ELSE [ret |-> Some(policy.current_delay_ms),
          policy |->
              [current_attempt |-> policy.current_attempt + 1,
               current_delay_ms |->
                   Min((policy.current_delay_ms * config.multiplier2) \div 2,
                       config.max_delay_ms)]]

\* a caller asks the policy for its next delay
PolicyNextDelay ==
    /\ bpc = "idle"
    /\ Len(bdelays) < bconfig.max_retries + 2
    /\ bdelays' = Append(bdelays, next_delay(bconfig, bpolicy).ret)
    /\ bpolicy' = next_delay(bconfig, bpolicy).policy
    /\ UNCHANGED <<bconfig, bpc, bops, bsleeps, bret>>
    /\ UNCHANGED notBackoff

\* a RetryPolicy::new(config) that no one has asked yet
InitSpecPolicy ==
    /\ InitQueue
    /\ InitTaskIdle
    /\ InitConn
    /\ InitGateway
    /\ InitSocket
    /\ InitStreamIdle
    /\ InitRetryIdle
    /\ InitControlIdle
    /\ InitRegistry
    /\ InitLastIdle
    /\ InitStoreIdle
    /\ bconfig \in RetryConfigs
    /\ bpolicy = NewRetryPolicy(bconfig)
    /\ bdelays = <<>>
    /\ bpc = "idle"
    /\ bops = <<>>
    /\ bsleeps = <<>>
    /\ bret = NoResult

NextPolicy == PolicyNextDelay

SpecPolicy == InitSpecPolicy /\ [][NextPolicy]_vars

\* the errors of the operation given to with_retry
OperationErrors == {"first failure", "other failure"}
OkOp == [kind |-> "Ok", error |-> ""]
ErrOp(e) == [kind |-> "Err", error |-> e]

\* with_retry: operation().await returned Ok(result)
OperationOk ==
    /\ bpc = "call"
    /\ bops' = Append(bops, OkOp)
    /\ bret' = OkOp
    /\ bpc' = "returned"
    /\ UNCHANGED <<bconfig, bpolicy, bdelays, bsleeps>>
    /\ UNCHANGED notBackoff

\* with_retry: operation().await returned Err(e); sleep when the policy
\* has a delay left, return Err(e) when it has none
OperationErr(e) ==
    /\ bpc = "call"
    /\ bops' = Append(bops, ErrOp(e))
    /\ bdelays' = Append(bdelays, next_delay(bconfig, bpolicy).ret)
    /\ bpolicy' = next_delay(bconfig, bpolicy).policy
    /\ IF next_delay(bconfig, bpolicy).ret.some
       THEN /\ bsleeps' = Append(bsleeps, next_delay(bconfig, bpolicy).ret.ms)
            /\ bpc' = "sleep"
            /\ UNCHANGED bret
       ELSE /\ bret' = ErrOp(e)
            /\ bpc' = "returned"
            /\ UNCHANGED bsleeps
    /\ UNCHANGED bconfig
    /\ UNCHANGED notBackoff

\* with_retry: tokio::time::sleep(delay).await is over, next turn of the loop
SleepOver ==
    /\ bpc = "sleep"
    /\ bpc' = "call"
    /\ UNCHANGED <<bconfig, bpolicy, bdelays, bops, bsleeps, bret>>
    /\ UNCHANGED notBackoff

\* with_retry(operation, config) has made its policy and enters the loop
InitSpecWithRetry ==
    /\ InitQueue
    /\ InitTaskIdle
    /\ InitConn
    /\ InitGateway
    /\ InitSocket
    /\ InitStreamIdle
    /\ InitRetryIdle
    /\ InitControlIdle
    /\ InitRegistry
    /\ InitLastIdle
    /\ InitStoreIdle
    /\ bconfig \in RetryConfigs
    /\ bpolicy = NewRetryPolicy(bconfig)
    /\ bdelays = <<>>
    /\ bpc = "call"
    /\ bops = <<>>
    /\ bsleeps = <<>>
    /\ bret = NoResult

NextWithRetry ==
    \/ OperationOk
    \/ \E e \in OperationErrors : OperationErr(e)
    \/ SleepOver

SpecWithRetry == InitSpecWithRetry /\ [][NextWithRetry]_vars

(***************************************************************************)
(* Claims about the indexing retry                                         *)
(***************************************************************************)
\* C23: with_retry returns the first Ok of the operation and does not call
\* it again; when the operation keeps failing it is called exactly
\* max_retries + 1 times, with one sleep before each retry, and the error
\* of the last call is what with_retry returns, as it is.
C23_WithRetryFirstOkOrLastError ==
    /\ Len(bops) <= bconfig.max_retries + 1
    /\ \A i \in 1..Len(bops) :
          bops[i].kind = "Ok"
              => (i = Len(bops) /\ bpc = "returned" /\ bret = OkOp)
    /\ Len(bsleeps) = IF bpc = "returned" THEN Len(bops) - 1 ELSE Len(bops)
    /\ (bpc = "returned" /\ \A i \in 1..Len(bops) : bops[i].kind = "Err")
          => /\ Len(bops) = bconfig.max_retries + 1
             /\ Len(bsleeps) = bconfig.max_retries
             /\ bret = bops[Len(bops)]
    /\ (bpc # "returned") => bret = NoResult

\* C23 witness: with max_retries = 2 the operation failed three times, the
\* last time with another error than before, and with_retry returned that
\* last error after two sleeps
C23_Witness ==
    /\ bpc = "returned"
    /\ bconfig.max_retries = 2
    /\ bops = <<ErrOp("first failure"), ErrOp("first failure"), ErrOp("other failure")>>
    /\ Len(bsleeps) = 2
    /\ bret = ErrOp("other failure")

\* C24: the calls of next_delay on one policy yield a delay exactly on the
\* first max_retries calls and None on every later call; the first delay
\* is initial_delay_ms, each later delay is the one before it times the
\* multiplier (in whole ms), and no delay is above max_delay_ms.
C24_DelaysMultipliedAndClamped ==
    \A k \in 1..Len(bdelays) :
        /\ bdelays[k].some <=> (k <= bconfig.max_retries)
        /\ bdelays[k].some =>
              /\ bdelays[k].ms <= bconfig.max_delay_ms
              /\ (k = 1) => bdelays[k].ms = bconfig.initial_delay_ms
              /\ (k > 1) => bdelays[k].ms =
                                Min((bdelays[k - 1].ms * bconfig.multiplier2) \div 2,
                                    bconfig.max_delay_ms)

(***************************************************************************)
(* ProviderRegistry (nexis-runtime/src/registry.rs)                        *)
(*                                                                         *)
(* Each call is a future that waits for the RwLocks it takes; a lock is    *)
(* granted when no conflicting guard is held and no future asked for it    *)
(* earlier, and a future that waits can be dropped, which releases the     *)
(* guards it holds.                                                        *)
(***************************************************************************)
ProviderNames == {"p1", "p2"}

\* an is_empty that holds of every map
is_empty_always(m) == TRUE

\* HashMap::is_empty
is_empty(m) == DOMAIN m = {}

\* tokio's RwLock is fair: the futures that wait for a lock are served first
\* come, first served, so a read waits behind a write that was asked earlier
ReadGranted(writer, queue, c) == writer = 0 /\ Head(queue) = c
WriteGranted(writer, readers, queue, c) ==
    writer = 0 /\ readers = {} /\ Head(queue) = c

\* a caller calls register(name, provider)
RegisterStart(c, name) ==
    /\ gpc[c] = "idle"
    /\ reg_ops < MaxRegistryOps
    /\ reg_ops' = reg_ops + 1
    /\ gpc' = [gpc EXCEPT ![c] = "register_providers"]
    /\ gname' = [gname EXCEPT ![c] = name]
    /\ gret' = [gret EXCEPT ![c] = "none"]
    /\ reg_pq' = Append(reg_pq, c)
    /\ UNCHANGED <<reg_providers, reg_default, reg_pw, reg_pr, reg_dw, reg_dr,
                   reg_order, reg_sets, reg_dq>>
    /\ UNCHANGED notRegistry

\* register: self.providers.write().await is granted; a registry that is
\* not empty gets the provider inserted and the guard dropped
RegisterLockProviders(c) ==
    /\ gpc[c] = "register_providers"
    /\ WriteGranted(reg_pw, reg_pr, reg_pq, c)
    /\ reg_pq' = Tail(reg_pq)
    /\ IF is_empty(reg_providers)
       THEN /\ reg_pw' = c
            /\ reg_dq' = Append(reg_dq, c)
            /\ gpc' = [gpc EXCEPT ![c] = "register_default"]
            /\ UNCHANGED <<reg_providers, reg_order, gret>>
       ELSE /\ reg_providers' = (gname[c] :> reg_ops) @@ reg_providers
            /\ reg_order' = Append(reg_order, gname[c])
            /\ gpc' = [gpc EXCEPT ![c] = "idle"]
            /\ gret' = [gret EXCEPT ![c] = "registered"]
            /\ UNCHANGED <<reg_pw, reg_dq>>
    /\ UNCHANGED <<reg_default, reg_pr, reg_dw, reg_dr, gname, reg_sets, reg_ops>>
    /\ UNCHANGED notRegistry

\* register: self.default_provider.write().await is granted: the name
\* becomes the default, the provider is inserted, both guards are dropped
RegisterLockDefault(c) ==
    /\ gpc[c] = "register_default"
    /\ WriteGranted(reg_dw, reg_dr, reg_dq, c)
    /\ reg_dq' = Tail(reg_dq)
    /\ reg_default' = <<gname[c]>>
    /\ reg_providers' = (gname[c] :> reg_ops) @@ reg_providers
    /\ reg_order' = Append(reg_order, gname[c])
    /\ reg_pw' = 0
    /\ gpc' = [gpc EXCEPT ![c] = "idle"]
    /\ gret' = [gret EXCEPT ![c] = "registered"]
    /\ UNCHANGED <<reg_pr, reg_dw, reg_dr, gname, reg_sets, reg_ops, reg_pq>>
    /\ UNCHANGED notRegistry

\* a caller calls set_default(name)
SetDefaultStart(c, name) ==
    /\ gpc[c] = "idle"
    /\ reg_ops < MaxRegistryOps
    /\ reg_ops' = reg_ops + 1
    /\ gpc' = [gpc EXCEPT ![c] = "set_default_providers"]
    /\ gname' = [gname EXCEPT ![c] = name]
    /\ gret' = [gret EXCEPT ![c] = "none"]
    /\ reg_pq' = Append(reg_pq, c)
    /\ UNCHANGED <<reg_providers, reg_default, reg_pw, reg_pr, reg_dw, reg_dr,
                   reg_order, reg_sets, reg_dq>>
    /\ UNCHANGED notRegistry

\* set_default: self.providers.read().await is granted; a name that is
\* not a key is answered Err(Message) and the guard dropped
SetDefaultLockProviders(c) ==
    /\ gpc[c] = "set_default_providers"
    /\ ReadGranted(reg_pw, reg_pq, c)
    /\ reg_pq' = Tail(reg_pq)
    /\ IF ~contains_key(reg_providers, gname[c])
       THEN /\ gpc' = [gpc EXCEPT ![c] = "idle"]
            /\ gret' = [gret EXCEPT ![c] = "Err"]
            /\ UNCHANGED <<reg_pr, reg_dq>>
       ELSE /\ reg_pr' = reg_pr \cup {c}
            /\ reg_dq' = Append(reg_dq, c)
            /\ gpc' = [gpc EXCEPT ![c] = "set_default_default"]
            /\ UNCHANGED gret
    /\ UNCHANGED <<reg_providers, reg_default, reg_pw, reg_dw, reg_dr, gname,
                   reg_order, reg_sets, reg_ops>>
    /\ UNCHANGED notRegistry

\* set_default: self.default_provider.write().await is granted: the name
\* becomes the default, Ok(()), both guards are dropped
SetDefaultLockDefault(c) ==
    /\ gpc[c] = "set_default_default"
    /\ WriteGranted(reg_dw, reg_dr, reg_dq, c)
    /\ reg_dq' = Tail(reg_dq)
    /\ reg_default' = <<gname[c]>>
    /\ reg_pr' = reg_pr \ {c}
    /\ reg_sets' = reg_sets + 1
    /\ gpc' = [gpc EXCEPT ![c] = "idle"]
    /\ gret' = [gret EXCEPT ![c] = "Ok"]
    /\ UNCHANGED <<reg_providers, reg_pw, reg_dw, reg_dr, gname, reg_order, reg_ops,
                   reg_pq>>
    /\ UNCHANGED notRegistry

\* a caller calls get_default()
GetDefaultStart(c) ==
    /\ gpc[c] = "idle"
    /\ reg_ops < MaxRegistryOps
    /\ reg_ops' = reg_ops + 1
    /\ gpc' = [gpc EXCEPT ![c] = "get_default_default"]
    /\ gname' = [gname EXCEPT ![c] = ""]
    /\ gret' = [gret EXCEPT ![c] = "none"]
    /\ reg_dq' = Append(reg_dq, c)
    /\ UNCHANGED <<reg_providers, reg_default, reg_pw, reg_pr, reg_dw, reg_dr,
                   reg_order, reg_sets, reg_pq>>
    /\ UNCHANGED notRegistry

\* get_default: self.default_provider.read().await is granted; without a
\* default the answer is None, otherwise self.get(name) is called with the
\* guard held
GetDefaultLockDefault(c) ==
    /\ gpc[c] = "get_default_default"
    /\ ReadGranted(reg_dw, reg_dq, c)
    /\ reg_dq' = Tail(reg_dq)
    /\ IF reg_default = <<>>
       THEN /\ gpc' = [gpc EXCEPT ![c] = "idle"]
            /\ gret' = [gret EXCEPT ![c] = "None"]
            /\ UNCHANGED <<reg_dr, gname, reg_pq>>
       ELSE /\ reg_dr' = reg_dr \cup {c}
            /\ gname' = [gname EXCEPT ![c] = reg_default[1]]
            /\ reg_pq' = Append(reg_pq, c)
            /\ gpc' = [gpc EXCEPT ![c] = "get_default_providers"]
            /\ UNCHANGED gret
    /\ UNCHANGED <<reg_providers, reg_default, reg_pw, reg_pr, reg_dw, reg_order,
                   reg_sets, reg_ops>>
    /\ UNCHANGED notRegistry

\* get_default: the providers.read().await of get(name) is granted: the
\* provider of that name is the answer, both guards are dropped
GetDefaultLockProviders(c) ==
    /\ gpc[c] = "get_default_providers"
    /\ ReadGranted(reg_pw, reg_pq, c)
    /\ reg_pq' = Tail(reg_pq)
    /\ reg_dr' = reg_dr \ {c}
    /\ gpc' = [gpc EXCEPT ![c] = "idle"]
    /\ gret' = [gret EXCEPT ![c] =
                   IF contains_key(reg_providers, gname[c]) THEN gname[c] ELSE "None"]
    /\ UNCHANGED <<reg_providers, reg_default, reg_pw, reg_pr, reg_dw, gname,
                   reg_order, reg_sets, reg_ops, reg_dq>>
    /\ UNCHANGED notRegistry

\* get(name), list() and health_check(): each takes providers.read() and
\* nothing else
ReadCalls == {"get", "list", "health_check"}

\* a caller calls get(name), list() or health_check()
ReadStart(c, call, name) ==
    /\ gpc[c] = "idle"
    /\ reg_ops < MaxRegistryOps
    /\ reg_ops' = reg_ops + 1
    /\ gpc' = [gpc EXCEPT ![c] = call]
    /\ gname' = [gname EXCEPT ![c] = name]
    /\ gret' = [gret EXCEPT ![c] = "none"]
    /\ reg_pq' = Append(reg_pq, c)
    /\ UNCHANGED <<reg_providers, reg_default, reg_pw, reg_pr, reg_dw, reg_dr,
                   reg_order, reg_sets, reg_dq>>
    /\ UNCHANGED notRegistry

\* get, list, health_check: self.providers.read().await is granted, the
\* answer is taken from the map, the guard is dropped
ReadLockProviders(c) ==
    /\ gpc[c] \in ReadCalls
    /\ ReadGranted(reg_pw, reg_pq, c)
    /\ reg_pq' = Tail(reg_pq)
    /\ gpc' = [gpc EXCEPT ![c] = "idle"]
    /\ gret' = [gret EXCEPT ![c] =
                   IF gpc[c] = "get"
                   THEN IF contains_key(reg_providers, gname[c]) THEN gname[c] ELSE "None"
                   ELSE "listed"]
    /\ UNCHANGED <<reg_providers, reg_default, reg_pw, reg_pr, reg_dw, reg_dr, gname,
                   reg_order, reg_sets, reg_ops, reg_dq>>
    /\ UNCHANGED notRegistry

\* the future of a call that waits for a lock is dropped: its guards go
\* and it leaves the queue it waits in
RegistryCancel(c) ==
    /\ gpc[c] # "idle"
    /\ gpc' = [gpc EXCEPT ![c] = "idle"]
    /\ gret' = [gret EXCEPT ![c] = "dropped"]
    /\ reg_pw' = IF reg_pw = c THEN 0 ELSE reg_pw
    /\ reg_pr' = reg_pr \ {c}
    /\ reg_dr' = reg_dr \ {c}
    /\ reg_pq' = SeqRemove(reg_pq, c)
    /\ reg_dq' = SeqRemove(reg_dq, c)
    /\ UNCHANGED <<reg_providers, reg_default, reg_dw, gname, reg_order, reg_sets,
                   reg_ops>>
    /\ UNCHANGED notRegistry

InitSpecRegistry ==
    /\ InitQueue
    /\ InitTaskIdle
    /\ InitConn
    /\ InitGateway
    /\ InitSocket
    /\ InitStreamIdle
    /\ InitRetryIdle
    /\ InitControlIdle
    /\ InitBackoffIdle
    /\ InitRegistry
    /\ InitLastIdle
    /\ InitStoreIdle

NextRegistry ==
    \/ \E c \in RegistryCallers, name \in ProviderNames : RegisterStart(c, name)
    \/ \E c \in RegistryCallers : RegisterLockProviders(c)
    \/ \E c \in RegistryCallers : RegisterLockDefault(c)
    \/ \E c \in RegistryCallers, name \in ProviderNames : SetDefaultStart(c, name)
    \/ \E c \in RegistryCallers : SetDefaultLockProviders(c)
    \/ \E c \in RegistryCallers : SetDefaultLockDefault(c)
    \/ \E c \in RegistryCallers : GetDefaultStart(c)
    \/ \E c \in RegistryCallers : GetDefaultLockDefault(c)
    \/ \E c \in RegistryCallers : GetDefaultLockProviders(c)
    \/ \E c \in RegistryCallers : RegistryCancel(c)

SpecRegistry == InitSpecRegistry /\ [][NextRegistry]_vars

\* C25: the name of the first register call that completes becomes the
\* default, and the default changes at no other step than that one and a
\* set_default call that returns Ok; set_default(name) with a name that is
\* not registered returns an error and leaves the default as it was.
C25_FirstRegisteredIsDefault ==
    /\ []((reg_order # <<>> /\ reg_sets = 0) => reg_default = <<reg_order[1]>>)
    /\ []((reg_order = <<>>) => (reg_default = <<>> /\ reg_sets = 0))
    /\ [][ /\ (reg_default' # reg_default)
                => \/ reg_order = <<>> /\ reg_order' # <<>>
                   \/ \E c \in RegistryCallers :
                         /\ gpc[c] = "set_default_default"
                         /\ gret'[c] = "Ok"
                         /\ reg_default' = <<gname[c]>>
                         /\ contains_key(reg_providers, gname[c])
           /\ \A c \in RegistryCallers :
                  (gpc[c] = "set_default_providers" /\ gpc'[c] # gpc[c]
                     /\ gret'[c] # "dropped")
                    => IF gname[c] \in DOMAIN reg_providers
                       THEN gret'[c] = "none"
                       ELSE gret'[c] = "Err" /\ gpc'[c] = "idle"
                               /\ reg_default' = reg_default
          ]_vars

\* C25 witness: p1 and then p2 were registered, set_default("p2") had
\* failed before p2 was registered, and the default is still p1
C25_Witness ==
    /\ reg_order = <<"p1", "p2">>
    /\ reg_default = <<"p1">>
    /\ reg_sets = 0
    /\ \E c \in RegistryCallers : gret[c] = "Err" /\ gname[c] = "p2"

(***************************************************************************)
(* InMemoryVectorStore (nexis-vector/src/store.rs)                         *)
(*                                                                         *)
(* Every call takes the documents lock once and does all its work under    *)
(* it, so a call is one step.  A Uuid is a small number, created_at a      *)
(* tick of the clock.                                                      *)
(***************************************************************************)
\* Vector::new(data)
Vector_new(data) == [dimensions |-> Len(data), data |-> data]

\* the documents given to upsert and upsert_batch: vectors of one and of
\* two dimensions, one of which is not the store's
UpsertVectors == {Vector_new(<<1>>), Vector_new(<<1, 0>>)}
UpsertDocs == [id : 1..MaxDocIds, vector : UpsertVectors, created_at : {1}]

RECURSIVE SeqsUpTo(_, _)
\* the lists over S of length at most n
SeqsUpTo(S, n) ==
    IF n = 0 THEN {<<>>}
    ELSE SeqsUpTo(S, n - 1) \cup
         {Append(q, x) : q \in {r \in SeqsUpTo(S, n - 1) : Len(r) = n - 1}, x \in S}

\* VectorError::InvalidDimension { expected, actual }
InvalidDimension(expected, actual) ==
    [kind |-> "InvalidDimension", expected |-> expected, actual |-> actual]
\* VectorError::NotFound { id }
NotFound(id) == [kind |-> "NotFound", id |-> id]

\* a dimension test that lets every document pass
dimension_differs_never(document, dimension) == FALSE

\* document.vector.dimensions != self.dimension
dimension_differs(document, dimension) == document.vector.dimensions # dimension

\* HashMap::insert
insert(m, k, v) == (k :> v) @@ m

\* a remove that leaves the entry in the map
remove_kept(m, k) == m

\* HashMap::remove: the map without the key
remove(m, k) == [x \in DOMAIN m \ {k} |-> m[x]]

\* upsert(document)
Upsert(document) ==
    /\ vcall' = [kind |-> "upsert", document |-> document]
    /\ IF dimension_differs(document, vdim)
       THEN /\ vret' = InvalidDimension(vdim, document.vector.dimensions)
            /\ UNCHANGED <<vstore, vlive>>
       ELSE /\ vstore' = insert(vstore, document.id, document)
            /\ vret' = [kind |-> "Ok", id |-> document.id]
            /\ vlive' = vlive \cup {document.id}
    /\ UNCHANGED <<vdim, vsorted>>
    /\ UNCHANGED notStore

RECURSIVE UpsertBatchLoop(_, _, _, _)
\* upsert_batch: the `for doc in documents` loop over the locked map;
\* the map and the BatchResult after the loop
UpsertBatchLoop(documents, docs, succeeded, failed) ==
    IF documents = <<>>
    THEN [docs |-> docs, succeeded |-> succeeded, failed |-> failed]
    ELSE IF dimension_differs(Head(documents), vdim)
         THEN UpsertBatchLoop(Tail(documents), docs, succeeded,
                  Append(failed, [id |-> Head(documents).id,
                                  error |-> "Invalid dimension"]))
         ELSE UpsertBatchLoop(Tail(documents),
                  insert(docs, Head(documents).id, Head(documents)),
                  Append(succeeded, Head(documents).id), failed)

\* the set of the elements of a list
Range(q) == {q[i] : i \in 1..Len(q)}

\* upsert_batch(documents)
UpsertBatch(documents) ==
    /\ vcall' = [kind |-> "upsert_batch", documents |-> documents]
    /\ vstore' = UpsertBatchLoop(documents, vstore, <<>>, <<>>).docs
    /\ vret' = [kind |-> "Batch",
                succeeded |-> UpsertBatchLoop(documents, vstore, <<>>, <<>>).succeeded,
                failed |-> UpsertBatchLoop(documents, vstore, <<>>, <<>>).failed]
    /\ vlive' = vlive \cup Range(vret'.succeeded)
    /\ UNCHANGED <<vdim, vsorted>>
    /\ UNCHANGED notStore

\* get(id)
Get(id) ==
    /\ vcall' = [kind |-> "get", id |-> id]
    /\ vret' = IF id \in DOMAIN vstore
               THEN [kind |-> "Ok", document |-> vstore[id]]
               ELSE NotFound(id)
    /\ UNCHANGED <<vstore, vdim, vlive, vsorted>>
    /\ UNCHANGED notStore

RECURSIVE GetBatchLoop(_, _)
\* get_batch: the `for id in ids` loop
GetBatchLoop(ids, docs) ==
    IF ids = <<>> THEN <<>>
    ELSE IF Head(ids) \in DOMAIN docs
         THEN <<docs[Head(ids)]>> \o GetBatchLoop(Tail(ids), docs)
         ELSE GetBatchLoop(Tail(ids), docs)

\* get_batch(ids)
GetBatch(ids) ==
    /\ vcall' = [kind |-> "get_batch", ids |-> ids]
    /\ vret' = [kind |-> "Docs", documents |-> GetBatchLoop(ids, vstore)]
    /\ UNCHANGED <<vstore, vdim, vlive, vsorted>>
    /\ UNCHANGED notStore

\* delete(id)
Delete(id) ==
    /\ vcall' = [kind |-> "delete", id |-> id]
    /\ vstore' = remove(vstore, id)
    /\ IF id \in DOMAIN vstore
       THEN /\ vret' = [kind |-> "Ok", id |-> id]
            /\ vlive' = vlive \ {id}
       ELSE /\ vret' = NotFound(id)
            /\ UNCHANGED vlive
    /\ UNCHANGED <<vdim, vsorted>>
    /\ UNCHANGED notStore

RECURSIVE DeleteBatchLoop(_, _, _, _)
\* delete_batch: the `for id in ids` loop over the locked map
DeleteBatchLoop(ids, docs, succeeded, failed) ==
    IF ids = <<>>
    THEN [docs |-> docs, succeeded |-> succeeded, failed |-> failed]
    ELSE IF Head(ids) \in DOMAIN docs
         THEN DeleteBatchLoop(Tail(ids), remove(docs, Head(ids)),
                  Append(succeeded, Head(ids)), failed)
         ELSE DeleteBatchLoop(Tail(ids), remove(docs, Head(ids)), succeeded,
                  Append(failed, [id |-> Head(ids), error |-> "Document not found"]))

\* delete_batch(ids)
DeleteBatch(ids) ==
    /\ vcall' = [kind |-> "delete_batch", ids |-> ids]
    /\ vstore' = DeleteBatchLoop(ids, vstore, <<>>, <<>>).docs
    /\ vret' = [kind |-> "Batch",
                succeeded |-> DeleteBatchLoop(ids, vstore, <<>>, <<>>).succeeded,
                failed |-> DeleteBatchLoop(ids, vstore, <<>>, <<>>).failed]
    /\ vlive' = vlive \ Range(vret'.succeeded)
    /\ UNCHANGED <<vdim, vsorted>>
    /\ UNCHANGED notStore

\* clear()
Clear ==
    /\ vcall' = [kind |-> "clear"]
    /\ vstore' = <<>>
    /\ vret' = [kind |-> "Unit"]
    /\ vlive' = {}
    /\ UNCHANGED <<vdim, vsorted>>
    /\ UNCHANGED notStore

\* a new store of one or of two dimensions
InitSpecStore ==
    /\ InitQueue
    /\ InitTaskIdle
    /\ InitConn
    /\ InitGateway
    /\ InitSocket
    /\ InitStreamIdle
    /\ InitRetryIdle
    /\ InitControlIdle
    /\ InitBackoffIdle
    /\ InitRegistry
    /\ InitLastIdle
    /\ \E dimension \in 1..2 : InitStore(dimension)

NextStore ==
    \/ \E document \in UpsertDocs : Upsert(document)
    \/ \E documents \in SeqsUpTo(UpsertDocs, MaxBatch) : UpsertBatch(documents)
    \/ \E id \in 1..MaxDocIds : Get(id)
    \/ \E ids \in SeqsUpTo(1..MaxDocIds, MaxBatch) : GetBatch(ids)
    \/ \E id \in 1..MaxDocIds : Delete(id)
    \/ \E ids \in SeqsUpTo(1..MaxDocIds, MaxBatch) : DeleteBatch(ids)
    \/ Clear

SpecStore == InitSpecStore /\ [][NextStore]_vars

(***************************************************************************)
(* InMemoryVectorStore::search                                             *)
(*                                                                         *)
(* An f32 score is kept in thousandths.  docs.values() walks the HashMap   *)
(* in an order the program does not choose: any order of the stored ids.   *)
(***************************************************************************)
\* the vectors of the stored documents and of the query: two dimensions
SearchVectors == {Vector_new(<<1, 0>>), Vector_new(<<1, 1>>)}

\* the contents a store of two dimensions can have after upserts of
\* documents created at ticks 1..MaxClock
StoreContents ==
    UNION {
        {[id \in S |-> [id |-> id, vector |-> g[id][1], created_at |-> g[id][2]]] :
             g \in [S -> SearchVectors \X (1..MaxClock)]} :
        S \in SUBSET (1..MaxSearchDocs)}

\* SearchFilter with no field set but time_range
TimeRange(start, end) == [time_range |-> <<[start |-> start, end |-> end]>>]
NoTimeRange == [time_range |-> <<>>]

\* the queries: query.filter is <<>> for None and <<f>> for Some(f),
\* query.min_score likewise
SearchQueries ==
    [vector : {Vector_new(<<1, 0>>)},
     limit : 0..MaxLimit,
     offset : 0..MaxOffset,
     min_score : {<<>>, <<800>>},
     filter : {<<>>, <<NoTimeRange>>, <<TimeRange(1, 1)>>}]

\* the square root of n, rounded down
ISqrt(n) == CHOOSE r \in 0..200 : r * r <= n /\ n < (r + 1) * (r + 1)

RECURSIVE Dot(_, _)
\* self.data.iter().zip(&other.data).map(|(a, b)| a * b).sum()
Dot(a, b) ==
    IF a = <<>> \/ b = <<>> THEN 0
    ELSE Head(a) * Head(b) + Dot(Tail(a), Tail(b))

\* Vector::cosine_similarity, in thousandths
cosine_similarity(self, other) ==
    IF self.dimensions # other.dimensions THEN 0
    ELSE IF Dot(self.data, self.data) = 0 \/ Dot(other.data, other.data) = 0
    THEN 0
    ELSE (Dot(self.data, other.data) * 100000)
             \div ISqrt(10000 * Dot(self.data, self.data) * Dot(other.data, other.data))

\* TimeRange::contains
contains(range, timestamp) == timestamp >= range.start /\ timestamp <= range.end

\* SearchFilter::matches, for documents without room, user and tags
matches(f, doc) ==
    IF f.time_range # <<>> THEN contains(f.time_range[1], doc.created_at) ELSE TRUE

\* SearchQuery::validate, for vectors made by Vector::new and a
\* min_score within 0.0..=1.0
validate(query) == query.vector.data # <<>> /\ query.limit # 0

\* SearchResult::new
SearchResult(document, score) == [document |-> document, score |-> score]

RECURSIVE FilterMap(_, _, _)
\* search: .filter(matches).map(score).filter(min_score).collect() over
\* the documents in the order `order` of their ids
FilterMap(order, docs, query) ==
    IF order = <<>> THEN <<>>
    ELSE IF /\ (query.filter = <<>> \/ matches(query.filter[1], docs[Head(order)]))
            /\ (query.min_score = <<>> \/
                  cosine_similarity(query.vector, docs[Head(order)].vector)
                      >= query.min_score[1])
         THEN <<SearchResult(docs[Head(order)],
                    cosine_similarity(query.vector, docs[Head(order)].vector))>>
                  \o FilterMap(Tail(order), docs, query)
         ELSE FilterMap(Tail(order), docs, query)

\* where a stable sort by b.score.partial_cmp(&a.score) puts x into a
\* list it has sorted: behind every element whose score is not lower
InsertByScore(sorted, x) ==
    SubSeq(sorted, 1, Cardinality({i \in 1..Len(sorted) : sorted[i].score >= x.score}))
        \o <<x>>
        \o SubSeq(sorted,
                  Cardinality({i \in 1..Len(sorted) : sorted[i].score >= x.score}) + 1,
                  Len(sorted))

RECURSIVE sort_by(_)
\* results.sort_by(|a, b| b.score.partial_cmp(&a.score)...): stable
sort_by(results) ==
    IF results = <<>> THEN <<>>
    ELSE InsertByScore(sort_by(SubSeq(results, 1, Len(results) - 1)),
                       results[Len(results)])

\* a pagination that takes the first `limit` results whatever the offset
truncate_only(results, offset, limit) ==
    SubSeq(results, 1, Min(limit, Len(results)))

\* search: skip(query.offset) and truncate(query.limit)
skip_truncate(results, offset, limit) ==
    SubSeq(results, offset + 1, Min(offset + limit, Len(results)))

\* the orders in which the ids of S can be walked
Orders(S) ==
    {f \in [1..Cardinality(S) -> S] : \A i, j \in 1..Cardinality(S) : f[i] = f[j] => i = j}

\* search(query), with the HashMap walked in the order `order`
Search(query, order) ==
    /\ vcall.kind = "none"
    /\ vcall' = [kind |-> "search", query |-> query]
    /\ IF ~validate(query)
       THEN /\ vret' = [kind |-> "InvalidQuery"]
            /\ UNCHANGED vsorted
       ELSE /\ vsorted' = sort_by(FilterMap(order, vstore, query))
            /\ vret' = [kind |-> "Results",
                        results |-> skip_truncate(vsorted', query.offset, query.limit)]
    /\ UNCHANGED <<vstore, vdim, vlive>>
    /\ UNCHANGED notStore

\* a store of two dimensions that holds some documents
InitSpecSearch ==
    /\ InitQueue
    /\ InitTaskIdle
    /\ InitConn
    /\ InitGateway
    /\ InitSocket
    /\ InitStreamIdle
    /\ InitRetryIdle
    /\ InitControlIdle
    /\ InitBackoffIdle
    /\ InitRegistry
    /\ InitLastIdle
    /\ vstore \in StoreContents
    /\ vdim = 2
    /\ vcall = NoCall
    /\ vret = NoCall
    /\ vlive = DOMAIN vstore
    /\ vsorted = <<>>

NextSearch ==
    \E query \in SearchQueries, order \in Orders(DOMAIN vstore) : Search(query, order)

SpecSearch == InitSpecSearch /\ [][NextSearch]_vars

(***************************************************************************)
(* Claims about the InMemoryVectorStore                                    *)
(***************************************************************************)
\* the ids of a list of documents or of failures, in order
IdsOf(q) == [i \in 1..Len(q) |-> q[i].id]

\* the documents of a batch that have the store's dimension
FitsStore(document) == document.vector.dimensions = vdim

\* C27: every stored document has the store's dimension.  upsert of a
\* document of another dimension returns InvalidDimension{expected,
\* actual} and leaves the store as it was; upsert_batch reports as
\* succeeded exactly the documents of the store's dimension, stores each
\* of them (the last of an id wins) although other documents of the batch
\* failed, and leaves every other entry alone.
C27_StoredDocumentsHaveStoreDimension ==
    /\ [](\A id \in DOMAIN vstore :
             vstore[id].vector.dimensions = vdim /\ vstore[id].id = id)
    /\ [][ /\ (vcall'.kind = "upsert") =>
                 IF vcall'.document.vector.dimensions # vdim
                 THEN /\ vret' = InvalidDimension(vdim,
                                      vcall'.document.vector.dimensions)
                      /\ vstore' = vstore
                 ELSE /\ vret' = [kind |-> "Ok", id |-> vcall'.document.id]
                      /\ DOMAIN vstore' = DOMAIN vstore \cup {vcall'.document.id}
                      /\ vstore'[vcall'.document.id] = vcall'.document
                      /\ \A id \in DOMAIN vstore \ {vcall'.document.id} :
                            vstore'[id] = vstore[id]
           /\ (vcall'.kind = "upsert_batch") =>
                 /\ vret'.kind = "Batch"
                 /\ vret'.succeeded = IdsOf(SelectSeq(vcall'.documents, FitsStore))
                 /\ IdsOf(vret'.failed) =
                        IdsOf(SelectSeq(vcall'.documents,
                                        LAMBDA d : ~FitsStore(d)))
                 /\ DOMAIN vstore' = DOMAIN vstore \cup Range(vret'.succeeded)
                 /\ \A id \in Range(vret'.succeeded) :
                       \E i \in 1..Len(vcall'.documents) :
                           /\ vstore'[id] = vcall'.documents[i]
                           /\ \A j \in (i + 1)..Len(vcall'.documents) :
                                 ~(vcall'.documents[j].id = id
                                      /\ FitsStore(vcall'.documents[j]))
                 /\ \A id \in DOMAIN vstore \ Range(vret'.succeeded) :
                       vstore'[id] = vstore[id]
          ]_vars

\* C27 witness: a batch of a document that fits a store of two dimensions
\* and then one that does not: the first is stored, the second reported
\* as failed
C27_Witness ==
    /\ vdim = 2
    /\ vcall.kind = "upsert_batch"
    /\ Len(vcall.documents) = 2
    /\ vcall.documents[1].vector.dimensions = 2
    /\ vcall.documents[2].vector.dimensions = 1
    /\ vcall.documents[1].id # vcall.documents[2].id
    /\ vret.succeeded = <<vcall.documents[1].id>>
    /\ IdsOf(vret.failed) = <<vcall.documents[2].id>>
    /\ DOMAIN vstore = {vcall.documents[1].id}

\* the ids of a list that are stored
StoredIds(ids) == SelectSeq(ids, LAMBDA id : id \in DOMAIN vstore)

\* C28: the stored ids are exactly the ids reported as upserted and not
\* reported as deleted since.  get and delete of such an id succeed (delete
\* ends it), of any other id they return NotFound{id} and change nothing;
\* get_batch returns the documents of the stored ids of its list, in
\* order, and delete_batch reports every id of its list as succeeded or
\* as failed and removes the succeeded ones: neither fails as a whole.
C28_RetrievableFromUpsertToDelete ==
    /\ [](DOMAIN vstore = vlive)
    /\ [][ /\ (vcall'.kind = "get") =>
                 /\ vstore' = vstore
                 /\ IF vcall'.id \in vlive
                    THEN vret' = [kind |-> "Ok", document |-> vstore[vcall'.id]]
                    ELSE vret' = NotFound(vcall'.id)
           /\ (vcall'.kind = "delete") =>
                 /\ IF vcall'.id \in vlive
                    THEN vret' = [kind |-> "Ok", id |-> vcall'.id]
                    ELSE vret' = NotFound(vcall'.id)
                 /\ DOMAIN vstore' = DOMAIN vstore \ {vcall'.id}
                 /\ \A id \in DOMAIN vstore' : vstore'[id] = vstore[id]
           /\ (vcall'.kind = "get_batch") =>
                 /\ vstore' = vstore
                 /\ vret'.kind = "Docs"
                 /\ IdsOf(vret'.documents) = StoredIds(vcall'.ids)
                 /\ \A i \in 1..Len(vret'.documents) :
                       vret'.documents[i] = vstore[vret'.documents[i].id]
           /\ (vcall'.kind = "delete_batch") =>
                 /\ vret'.kind = "Batch"
                 /\ Len(vret'.succeeded) + Len(vret'.failed) = Len(vcall'.ids)
                 /\ Range(vret'.succeeded) = Range(vcall'.ids) \cap vlive
                 /\ Range(IdsOf(vret'.failed)) \cup Range(vret'.succeeded)
                       = Range(vcall'.ids)
                 /\ DOMAIN vstore' = DOMAIN vstore \ Range(vcall'.ids)
                 /\ \A id \in DOMAIN vstore' : vstore'[id] = vstore[id]
          ]_vars

\* C28 witness: delete_batch of a stored id and of one that is not stored
\* deleted the first and reported the second as failed
C28_Witness ==
    /\ vcall.kind = "delete_batch"
    /\ vcall.ids = <<1, 2>>
    /\ vret.succeeded = <<1>>
    /\ IdsOf(vret.failed) = <<2>>
    /\ vstore = <<>>

\* a comes before b in the order of score descending, created_at
\* descending, id ascending
RanksBefore(a, b) ==
    \/ a.score > b.score
    \/ a.score = b.score /\ a.document.created_at > b.document.created_at
    \/ a.score = b.score /\ a.document.created_at = b.document.created_at
          /\ a.document.id < b.document.id

\* C29: the results of search are in the order of score descending, ties
\* by created_at descending and then by id ascending.
C29_ResultsInRankOrder ==
    (vret.kind = "Results") =>
        \A i \in 1..(Len(vret.results) - 1) :
            RanksBefore(vret.results[i], vret.results[i + 1])

\* the stored documents a query selects
Selected(query) ==
    {doc \in {vstore[id] : id \in DOMAIN vstore} :
        /\ (query.filter = <<>> \/ matches(query.filter[1], doc))
        /\ (query.min_score = <<>> \/
              cosine_similarity(query.vector, doc.vector) >= query.min_score[1])}

\* C30: the sorted list of a search holds every selected document once, by
\* score descending, and the results are its elements at the positions
\* offset + 1 .. offset + limit, or as many of them as there are: the
\* results are never more than limit.
C30_PaginationAfterSort ==
    (vret.kind = "Results") =>
        /\ {vsorted[i].document : i \in 1..Len(vsorted)} = Selected(vcall.query)
        /\ Len(vsorted) = Cardinality(Selected(vcall.query))
        /\ \A i \in 1..(Len(vsorted) - 1) : vsorted[i].score >= vsorted[i + 1].score
        /\ Len(vret.results) <= vcall.query.limit
        /\ Len(vret.results) =
              Min(vcall.query.limit,
                  IF Len(vsorted) > vcall.query.offset
                  THEN Len(vsorted) - vcall.query.offset ELSE 0)
        /\ \A i \in 1..Len(vret.results) :
              vret.results[i] = vsorted[vcall.query.offset + i]

\* C30 witness: of two selected documents of different scores, the one of
\* the lower score and the lower id, a search with offset 1 and limit 1
\* returned the second of the sorted list
C30_Witness ==
    /\ vret.kind = "Results"
    /\ vcall.query.offset = 1
    /\ vcall.query.limit = 1
    /\ Len(vsorted) = 2
    /\ vsorted[1].score > vsorted[2].score
    /\ vsorted[1].document.id > vsorted[2].document.id
    /\ vret.results = <<vsorted[2]>>

(***************************************************************************)
(* Further claims about the IndexingQueue                                  *)
(***************************************************************************)
\* the tasks whose enqueue has put them on the channel
AcceptedTasks == {t \in Tasks : epc[t] # "new"}
\* the tasks the worker has counted as completed or failed
CountedTasks == {t \in Tasks : status[t] \in {"Completed", "Failed"}}

\* C35: completed + failed is the number of the tasks the worker has
\* brought to Completed or Failed, each counted in one step by one and
\* never again, and never more than the tasks accepted; when no task is
\* on the channel and the worker waits in recv(), it is the number of the
\* accepted tasks.
C35_CountedOnceWhenDone ==
    /\ [](stats.completed + stats.failed = Cardinality(CountedTasks))
    /\ [](stats.completed + stats.failed <= Cardinality(AcceptedTasks))
    /\ []((channel = <<>> /\ wpc = "recv")
            => stats.completed + stats.failed = Cardinality(AcceptedTasks))
    /\ [][ /\ \A t \in Tasks :
                 status[t] \in {"Completed", "Failed"} => status'[t] = status[t]
           /\ stats'.completed >= stats.completed
           /\ stats'.failed >= stats.failed
           /\ (stats'.completed + stats'.failed)
                 - (stats.completed + stats.failed) \in {0, 1}
         ]_vars

\* C35 witness: all tasks were accepted, some completed, some failed after
\* retries, and the queue is idle
C35_Witness ==
    /\ channel = <<>>
    /\ wpc = "recv"
    /\ Cardinality(AcceptedTasks) = NumTasks
    /\ stats.completed >= 1
    /\ stats.failed >= 1
    /\ stats.retries >= 1
    /\ stats.completed + stats.failed = NumTasks

(***************************************************************************)
(* Further claims about the ConnectionManager                              *)
(***************************************************************************)
\* C38: whenever no call is under way, the ids that hold a permit are the
\* registered connections and connection_count() is their number.  (A
\* remove_connection of an id that is not registered returns at once and
\* changes no variable.)
C38_PermitsMatchConnections ==
    CallersIdle =>
        /\ connection_permits = connections
        /\ connection_count = Cardinality(connections)

(***************************************************************************)
(* backoff(base, attempt) of nexis-runtime/src/lib.rs and of               *)
(* nexis-runtime/src/embedding/openai.rs, as the retry loops call it.      *)
(* A Duration base * 2^exp is kept as [base, exp]: 2^31 and larger do not  *)
(* fit the integers of the model checker.                                  *)
(***************************************************************************)
Builds == {"debug", "release"}
ShiftOverflow == [kind |-> "panic", message |-> "attempt to shift left with overflow"]

\* 1_u32 << attempt, as the exponent of the power of two it yields: with
\* overflow checks the shift panics once attempt reaches the width of u32,
\* without them the shift amount is taken modulo the width
shl(attempt, build) ==
    IF attempt < U32Bits THEN [kind |-> "pow2", exp |-> attempt]
    ELSE IF build = "debug" THEN ShiftOverflow
    ELSE [kind |-> "pow2", exp |-> attempt % U32Bits]

\* base.saturating_mul(1_u32 << attempt); with base <= MaxBaseDelay ns and a
\* factor below 2^32 the product is far from Duration::MAX
backoff(base, attempt, build) ==
    IF shl(attempt, build).kind = "panic" THEN ShiftOverflow
    ELSE [base |-> base, exp |-> shl(attempt, build).exp]

\* the two Durations are the same length of time
SameDuration(d, e) == (d.base = 0 /\ e.base = 0) \/ d = e

\* the attempt failed with a retriable error and attempt < max_retries:
\* sleep(backoff(self.retry_base_delay, attempt))
ShiftSleep ==
    /\ kpc = "try"
    /\ kattempt < kmax
    /\ IF shl(kattempt, kbuild).kind = "panic"
       THEN /\ kpc' = "panicked"
            /\ UNCHANGED kslept
       ELSE /\ kpc' = "sleep"
            /\ kslept' = backoff(kbase, kattempt, kbuild)
    /\ UNCHANGED <<kbase, kmax, kbuild, kattempt>>
    /\ UNCHANGED notShift

\* the sleep is over: the next pass of `for attempt in 0..=self.max_retries`
ShiftWake ==
    /\ kpc = "sleep"
    /\ kattempt' = kattempt + 1
    /\ kpc' = "try"
    /\ UNCHANGED <<kbase, kmax, kbuild, kslept>>
    /\ UNCHANGED notShift

\* the attempt succeeded, failed for good, or was the last one
ShiftReturn ==
    /\ kpc = "try"
    /\ kpc' = "returned"
    /\ UNCHANGED <<kbase, kmax, kbuild, kattempt, kslept>>
    /\ UNCHANGED notShift

NextShift ==
    \/ ShiftSleep
    \/ ShiftWake
    \/ ShiftReturn

\* a request enters the loop of a client built with_retry_policy(m, base)
InitSpecShift ==
    /\ InitQueue
    /\ InitTaskIdle
    /\ InitConn
    /\ InitGateway
    /\ InitSocket
    /\ InitStreamIdle
    /\ InitRetryIdle
    /\ InitControlIdle
    /\ InitBackoffIdle
    /\ InitRegistry
    /\ InitStoreIdle
    /\ InitContextIdle
    /\ InitMemberIdle
    /\ InitEmbedIdle
    /\ kbase \in 0..MaxBaseDelay
    /\ kmax \in 0..MaxShiftRetries
    /\ kbuild \in Builds
    /\ kattempt = 0
    /\ kslept = NoDuration
    /\ kpc = "try"

SpecShift == InitSpecShift /\ [][NextShift]_vars

\* C40: the delay slept before retry number `attempt` (counted from 0) is
\* base * 2^attempt, for every attempt the loop reaches; in particular the
\* computation of the delay never panics.
C40_SleepIsBaseTimesTwoToAttempt ==
    /\ kpc = "sleep" => SameDuration(kslept, [base |-> kbase, exp |-> kattempt])
    /\ kpc # "panicked"

(***************************************************************************)
(* Further claims about the gateway handlers                               *)
(***************************************************************************)
\* the place of each RwLock of AppState in the order rooms -> messages ->
\* members
LockRank(lock) ==
    CASE lock = "rooms" -> 1
      [] lock = "room_messages" -> 2
      [] lock = "room_members" -> 3

\* the RwLock whose read() or write() handler h awaits next, "none" when it
\* waits for no lock
awaited(h) ==
    CASE hpc[h] = "check_room" -> "rooms"
      [] hpc[h] = "read_messages" -> "room_messages"
      [] hpc[h] = "write" /\ hreq[h].kind = "create_room" -> "rooms"
      [] hpc[h] = "write" /\ hreq[h].kind = "send_message" -> "room_messages"
      [] hpc[h] = "write" /\ hreq[h].kind = "invite_member" -> "room_members"
      [] OTHER -> "none"

\* a variant that takes its write lock before it looks the room up
held_write_first(h) ==
    CASE hpc[h] = "check_room" /\ hreq[h].kind = "send_message" -> {"room_messages"}
      [] hpc[h] = "check_room" /\ hreq[h].kind = "invite_member" -> {"room_members"}
      [] OTHER -> {}

\* the RwLock guards alive while handler h waits: the `rooms` guard of
\* send_message, get_room and invite_member is taken at "check_room" and
\* dropped by drop(rooms) before the next await; every other guard is taken
\* last and lives to the end of its statement or of the handler, where
\* nothing is awaited any more
held(h) ==
    LET taken == IF /\ hpc[h] \in {"waiting", "write", "read_messages"}
                    /\ hreq[h].kind \in {"send_message", "get_room", "invite_member"}
                 THEN {"rooms"}
                 ELSE {}
        dropped == {"rooms"}
    IN  taken \ dropped

C39_EntriesOnlyForRooms ==
    (DOMAIN room_messages \cup DOMAIN room_members) \subseteq DOMAIN rooms

C39_Witness ==
    /\ DOMAIN room_messages # {}
    /\ DOMAIN room_members # {}

(***************************************************************************)
(* Further claims about the ProviderRegistry                               *)
(***************************************************************************)
ConcurrentCallers == 1..NumConcurrentCalls

InitSpecCalls ==
    /\ InitQueue
    /\ InitTaskIdle
    /\ InitConn
    /\ InitGateway
    /\ InitSocket
    /\ InitStreamIdle
    /\ InitRetryIdle
    /\ InitControlIdle
    /\ InitBackoffIdle
    /\ InitRegistryFor(ConcurrentCallers)
    /\ InitLastIdle
    /\ InitStoreIdle

NextCalls ==
    \/ \E c \in ConcurrentCallers, name \in ProviderNames : RegisterStart(c, name)
    \/ \E c \in ConcurrentCallers : RegisterLockProviders(c)
    \/ \E c \in ConcurrentCallers : RegisterLockDefault(c)
    \/ \E c \in ConcurrentCallers, name \in ProviderNames : SetDefaultStart(c, name)
    \/ \E c \in ConcurrentCallers : SetDefaultLockProviders(c)
    \/ \E c \in ConcurrentCallers : SetDefaultLockDefault(c)
    \/ \E c \in ConcurrentCallers : GetDefaultStart(c)
    \/ \E c \in ConcurrentCallers : GetDefaultLockDefault(c)
    \/ \E c \in ConcurrentCallers : GetDefaultLockProviders(c)
    \/ \E c \in ConcurrentCallers, call \in ReadCalls, name \in ProviderNames :
          ReadStart(c, call, name)
    \/ \E c \in ConcurrentCallers : ReadLockProviders(c)
    \/ \E c \in ConcurrentCallers : RegistryCancel(c)

SpecCalls == InitSpecCalls /\ [][NextCalls]_vars

\* the lock call c waits for can be granted now
CanProceed(c) ==
    CASE gpc[c] = "register_providers" -> WriteGranted(reg_pw, reg_pr, reg_pq, c)
      [] gpc[c] \in {"register_default", "set_default_default"} ->
             WriteGranted(reg_dw, reg_dr, reg_dq, c)
      [] gpc[c] = "get_default_default" -> ReadGranted(reg_dw, reg_dq, c)
      [] gpc[c] \in {"set_default_providers", "get_default_providers"} \cup ReadCalls ->
             ReadGranted(reg_pw, reg_pq, c)
      [] OTHER -> FALSE

\* C34: concurrent register, get, get_default, set_default, list and
\* health_check calls on one registry all complete: whenever calls are
\* under way, one of them can take the lock it waits for (a state in which
\* none can is one they never leave).
C34_CallsNeverStuck ==
    (\E c \in DOMAIN gpc : gpc[c] # "idle")
        => \E c \in DOMAIN gpc : CanProceed(c)

(***************************************************************************)
(* ContextManager (nexis-context/src/manager.rs, window.rs, context.rs).   *)
(* add_message holds contexts.write() from its first line to its last, so  *)
(* a call is one step; the contexts of a manager do not touch each other,  *)
(* so there is one.  A message is its id (the number of its add_message    *)
(* call) and the token_count add_message gave it.                          *)
(***************************************************************************)
OverflowStrategies == {"TruncateOldest", "Summarize", "Fail"}
ContextWindows ==
    [max_tokens : 0..MaxWindowTokens, reserved_tokens : 0..MaxReservedTokens,
     overflow_strategy : OverflowStrategies]

\* ContextWindow::available_tokens: max_tokens.saturating_sub(reserved_tokens)
available_tokens(window) ==
    IF window.max_tokens >= window.reserved_tokens
    THEN window.max_tokens - window.reserved_tokens
    ELSE 0

\* estimate_tokens: (text.len() / 4).max(1)
estimate_tokens(len) == IF len \div 4 >= 1 THEN len \div 4 ELSE 1

RECURSIVE total_tokens(_)
\* ConversationContext::total_tokens
total_tokens(messages) ==
    IF messages = <<>> THEN 0
    ELSE Head(messages).token_count + total_tokens(Tail(messages))

RECURSIVE truncate_loop(_, _, _)
\* the loop of truncate_oldest: while freed < tokens_to_free and more than
\* one message is left, the first message goes
truncate_loop(messages, freed, tokens_to_free) ==
    IF freed < tokens_to_free /\ Len(messages) > 1
    THEN truncate_loop(Tail(messages), freed + Head(messages).token_count,
                       tokens_to_free)
    ELSE messages

\* a truncation that drops every message
truncate_everything(messages, tokens_to_free) == <<>>

\* truncate_oldest(context, tokens_to_free): the messages it leaves
truncate_oldest(messages, tokens_to_free) == truncate_loop(messages, 0, tokens_to_free)

\* add_message(context_id, message) with a content of len bytes
AddMessage(len) ==
    LET estimated_tokens == estimate_tokens(len)
        new_total == total_tokens(xmessages) + estimated_tokens
        overflow == new_total > available_tokens(xwindow)
        tokens_to_free == IF overflow THEN new_total - available_tokens(xwindow) ELSE 0
        kept == IF overflow
                THEN truncate_oldest(xmessages, tokens_to_free)
                ELSE xmessages
    IN  /\ xnext <= MaxAddMessages
        /\ xnext' = xnext + 1
        /\ xcall' = [kind |-> "add_message", len |-> len, before |-> xmessages,
                     tokens_to_free |-> tokens_to_free]
        /\ IF overflow /\ xwindow.overflow_strategy = "Fail"
           THEN /\ xret' = "WindowFull"
                /\ UNCHANGED xmessages
           ELSE /\ xmessages' = Append(kept, [id |-> xnext,
                                              token_count |-> estimated_tokens])
                /\ xret' = "Ok"
        /\ UNCHANGED xwindow
        /\ UNCHANGED notCtx

NextContext == \E len \in 0..MaxContentLen : AddMessage(len)

InitSpecContext ==
    /\ InitQueue
    /\ InitTaskIdle
    /\ InitConn
    /\ InitGateway
    /\ InitSocket
    /\ InitStreamIdle
    /\ InitRetryIdle
    /\ InitControlIdle
    /\ InitBackoffIdle
    /\ InitRegistry
    /\ InitStoreIdle
    /\ InitShiftIdle
    /\ InitMemberIdle
    /\ InitEmbedIdle
    /\ \E window \in ContextWindows : InitContext(window)

SpecContext == InitSpecContext /\ [][NextContext]_vars

\* the tokens of the first k messages
FirstTokens(messages, k) == total_tokens(SubSeq(messages, 1, k))

\* dropping the first k messages is where truncation stops: enough is freed
\* or one message at most is left
StopsAt(messages, k, tokens_to_free) ==
    FirstTokens(messages, k) >= tokens_to_free \/ Len(messages) - k <= 1

\* C31: an add_message under TruncateOldest or Summarize that finds
\* new_total above the available tokens drops the oldest messages one by
\* one until the tokens freed are at least new_total - available or one
\* message is left, and then appends the new message; without overflow it
\* only appends; the messages kept are the most recently added ones, in
\* insertion order.
C31_OldestDroppedUntilFreed ==
    /\ [][ (xnext' # xnext /\ xwindow.overflow_strategy # "Fail") =>
             LET message == [id |-> xnext, token_count |-> estimate_tokens(xcall'.len)]
                 new_total == total_tokens(xmessages) + message.token_count
                 need == new_total - available_tokens(xwindow)
                 k == Len(xmessages) + 1 - Len(xmessages')
             IN  /\ xret' = "Ok"
                 /\ k \in 0..Len(xmessages)
                 /\ xmessages' = Append(SubSeq(xmessages, k + 1, Len(xmessages)), message)
                 /\ (need <= 0) => k = 0
                 /\ (need > 0) =>
                       /\ StopsAt(xmessages, k, need)
                       /\ \A j \in 0..(k - 1) : ~StopsAt(xmessages, j, need) ]_vars
    /\ [](xwindow.overflow_strategy # "Fail" =>
             \A i \in 1..Len(xmessages) :
                 xmessages[i].id = xnext - Len(xmessages) + i - 1)

\* C31 witness: the context held three messages, the call had to free two
\* tokens and dropped the two oldest: the third and the new one are left
C31_Witness ==
    /\ xret = "Ok"
    /\ xwindow.overflow_strategy = "Summarize"
    /\ xcall.kind = "add_message"
    /\ Len(xcall.before) = 3
    /\ xcall.tokens_to_free = 2
    /\ Len(xmessages) = 2
    /\ xmessages[1] = xcall.before[3]

Colon == ":"
Symbols == {"nexis", "agent", "a", Colon}
\* the strings given to from_str
IdStrings(n) == SeqsUpTo(Symbols, n)

\* str::starts_with
starts_with(s, prefix) ==
    Len(s) >= Len(prefix) /\ SubSeq(s, 1, Len(prefix)) = prefix

RECURSIVE split(_)
\* s.split(':').collect(): the pieces between the colons, empty ones too
split(s) ==
    IF \A i \in 1..Len(s) : s[i] # Colon THEN <<s>>
    ELSE LET i == CHOOSE i \in 1..Len(s) :
                      s[i] = Colon /\ \A j \in 1..(i - 1) : s[j] # Colon
         IN  <<SubSeq(s, 1, i - 1)>> \o split(SubSeq(s, i + 1, Len(s)))

RECURSIVE join(_)
\* parts.join(":")
join(parts) ==
    IF parts = <<>> THEN <<>>
    ELSE IF Len(parts) = 1 THEN parts[1]
    ELSE parts[1] \o <<Colon>> \o join(Tail(parts))

MemberTypeNames == {<<"human">>, <<"agent">>, <<"bot">>}
MemberIdErr(kind) == [kind |-> kind]
MemberIdOk(s) == [kind |-> "Ok", id |-> s]

\* <MemberId as FromStr>::from_str
from_str(s) ==
    LET prefix == <<"nexis", Colon>>
        rest == SubSeq(s, Len(prefix) + 1, Len(s))
        parts == split(rest)
        member_type == parts[1]
        identifier == join(Tail(parts))
    IN  IF ~starts_with(s, prefix) THEN MemberIdErr("InvalidPrefix")
        ELSE IF Len(parts) < 2 THEN MemberIdErr("InvalidIdentifier")
        ELSE IF member_type \notin MemberTypeNames THEN MemberIdErr("InvalidType")
        ELSE IF identifier = <<>> THEN MemberIdErr("InvalidIdentifier")
        ELSE MemberIdOk(s)

\* MemberId::identifier: parts.get(2).unwrap_or(&"")
identifier(id) ==
    LET parts == split(id) IN IF Len(parts) >= 3 THEN parts[3] ELSE <<>>

\* MemberId::member_type: parts.get(1), Human for anything else
member_type(id) ==
    LET parts == split(id) IN
    IF Len(parts) >= 2 /\ parts[2] \in MemberTypeNames THEN parts[2] ELSE <<"human">>

\* <MemberId as Display>::fmt
to_string(id) == id

\* s.parse::<MemberId>()
FromStr ==
    /\ mi_parsed = NotAsked
    /\ mi_parsed' = from_str(mi_input)
    /\ UNCHANGED <<mi_input, mi_identifier, mi_type, mi_string>>
    /\ UNCHANGED notMember

\* id.identifier() on the id parsed
Identifier ==
    /\ mi_parsed.kind = "Ok"
    /\ mi_identifier = NotAsked
    /\ mi_identifier' = [kind |-> "asked", value |-> identifier(mi_parsed.id)]
    /\ UNCHANGED <<mi_input, mi_parsed, mi_type, mi_string>>
    /\ UNCHANGED notMember

\* id.member_type() on the id parsed
MemberType ==
    /\ mi_parsed.kind = "Ok"
    /\ mi_type = NotAsked
    /\ mi_type' = [kind |-> "asked", value |-> member_type(mi_parsed.id)]
    /\ UNCHANGED <<mi_input, mi_parsed, mi_identifier, mi_string>>
    /\ UNCHANGED notMember

\* id.to_string() on the id parsed
Display ==
    /\ mi_parsed.kind = "Ok"
    /\ mi_string = NotAsked
    /\ mi_string' = [kind |-> "asked", value |-> to_string(mi_parsed.id)]
    /\ UNCHANGED <<mi_input, mi_parsed, mi_identifier, mi_type>>
    /\ UNCHANGED notMember

NextMember ==
    \/ FromStr
    \/ Identifier
    \/ MemberType
    \/ Display

InitSpecMember ==
    /\ InitQueue
    /\ InitTaskIdle
    /\ InitConn
    /\ InitGateway
    /\ InitSocket
    /\ InitStreamIdle
    /\ InitRetryIdle
    /\ InitControlIdle
    /\ InitBackoffIdle
    /\ InitRegistry
    /\ InitStoreIdle
    /\ InitShiftIdle
    /\ InitContextIdle
    /\ InitEmbedIdle
    /\ \E s \in IdStrings(MaxIdSymbols) : InitMember(s)

SpecMember == InitSpecMember /\ [][NextMember]_vars

\* the string is nexis:<type>:<remainder> with a known type and a
\* remainder that is not empty
WellFormed(s, type, remainder) ==
    /\ type \in MemberTypeNames
    /\ remainder # <<>>
    /\ s = <<"nexis", Colon>> \o type \o <<Colon>> \o remainder

\* C32: a string nexis:<type>:<identifier> whose identifier contains ':'
\* parses, split at its first two colons only: the identifier of the parsed
\* id is the whole remainder after the type, its member type the declared
\* one, and its string form the string parsed.
C32_IdentifierIsWholeRemainder ==
    \A type \in MemberTypeNames :
        \A n \in 1..Len(mi_input) :
            LET remainder == SubSeq(mi_input, n, Len(mi_input)) IN
            (WellFormed(mi_input, type, remainder) /\ mi_parsed # NotAsked) =>
                /\ mi_parsed = MemberIdOk(mi_input)
                /\ mi_identifier # NotAsked => mi_identifier.value = remainder
                /\ mi_type # NotAsked => mi_type.value = type
                /\ mi_string # NotAsked => mi_string.value = mi_input

(***************************************************************************)
(* OpenAIEmbeddingProvider::embed_batch (nexis-runtime/src/embedding/      *)
(* openai.rs): one attempt of its loop.  The inputs are numbered from 0;   *)
(* an embedding is known by the number of the input it was computed from   *)
(* (`of`), next to the `index` the upstream wrote beside it.               *)
(***************************************************************************)
\* the 200 answers to n inputs: one embedding for each input, in any order
\* and with any index values
UpstreamData(n) ==
    {data \in [1..n -> [of : 0..(n - 1), index : 0..(n - 1)]] :
        \A i, j \in 1..n : i # j => data[i].of # data[j].of}

UpstreamAnswers(n) ==
    {[kind |-> "Ok", data |-> data] : data \in UpstreamData(n)}
        \cup {[kind |-> "Transport"], [kind |-> "HttpStatus", status |-> 500],
              [kind |-> "Decode"]}

\* where (idx, emb) goes into a list sorted by idx: behind the entries
\* whose idx is not larger
InsertByKey(sorted, x) ==
    LET n == Cardinality({i \in 1..Len(sorted) : sorted[i].index <= x.index})
    IN  SubSeq(sorted, 1, n) \o <<x>> \o SubSeq(sorted, n + 1, Len(sorted))

RECURSIVE sort_by_key(_)
\* embeddings.sort_by_key(|(idx, _)| *idx): a stable sort
sort_by_key(embeddings) ==
    IF embeddings = <<>> THEN <<>>
    ELSE InsertByKey(sort_by_key(SubSeq(embeddings, 1, Len(embeddings) - 1)),
                     embeddings[Len(embeddings)])

\* try_embed_batch: the error of the attempt, or the embeddings sorted by
\* the upstream's index, the index dropped
try_embed_batch(upstream) ==
    IF upstream.kind # "Ok" THEN upstream
    ELSE LET embeddings == sort_by_key(upstream.data)
         IN  [kind |-> "Ok",
              embeddings |-> [i \in 1..Len(embeddings) |-> embeddings[i].of]]

\* embed_batch(req): no text, no request; otherwise the attempt
EmbedBatch ==
    /\ eb_ret = NotAsked
    /\ eb_ret' = IF eb_texts = 0
                 THEN [kind |-> "Ok", embeddings |-> <<>>]
                 ELSE try_embed_batch(eb_upstream)
    /\ UNCHANGED <<eb_texts, eb_upstream>>
    /\ UNCHANGED notEmbed

NextEmbed == EmbedBatch

InitSpecEmbed ==
    /\ InitQueue
    /\ InitTaskIdle
    /\ InitConn
    /\ InitGateway
    /\ InitSocket
    /\ InitStreamIdle
    /\ InitRetryIdle
    /\ InitControlIdle
    /\ InitBackoffIdle
    /\ InitRegistry
    /\ InitStoreIdle
    /\ InitShiftIdle
    /\ InitContextIdle
    /\ InitMemberIdle
    /\ \E n \in 0..MaxBatchTexts : \E upstream \in UpstreamAnswers(n) :
           InitEmbed(n, upstream)

SpecEmbed == InitSpecEmbed /\ [][NextEmbed]_vars

\* C33: embed_batch preserves the input order: place i of the output holds
\* the embedding of input text i, whatever index values the upstream's
\* answer carries.
C33_OutputInInputOrder ==
    (eb_ret # NotAsked /\ eb_ret.kind = "Ok") =>
        /\ Len(eb_ret.embeddings) = eb_texts
        /\ \A i \in 1..eb_texts : eb_ret.embeddings[i] = i - 1

====
